---- MODULE Spec2Model ----
\* A model of keep_active.py: the two sweeps enable_all_workflows and
\* delete_old_workflow_runs, the three paginated listings they use, and the two
\* per-item operations enable_workflow and delete_workflow_run, run against a
\* GitHub API server whose answers are fixed the first time a URL is requested.
EXTENDS Integers, Sequences, FiniteSets, TLC

\* ---------------------------------------------------------------- bounds

MaxRepos == 2       \* repository names the server can list
MaxPages == 2       \* pages of one paginated listing
MaxPageLen == 2     \* items on one page
MaxRunId == 3       \* run identifiers are 1..MaxRunId
MaxKeep == 2        \* number_of_workflow_runs_to_keep is 0..MaxKeep
MaxSweeps == 2      \* sweeps the caller runs one after the other
MaxRequests == 6    \* HTTP requests of one sweep

\* ------------------------------------------------------- program constants

PER_PAGE == 100

\* number_of_workflow_runs_to_keep: int = 50 (line 172)
DefaultRunsToKeep == 50

\* ------------------------------------------------------------ value sets

Owners == {"bitranox"}
AllRepoNames == <<"lib_x", "lib_y", "lib_z", "lib_w">>
RepoNames == {AllRepoNames[i] : i \in 1..MaxRepos}
RunIds == 1..MaxRunId
ServerMessages == {"Not Found", "Bad credentials"}
NoMessage == ""          \* a JSON body without a "message" field
NoRepository == ""
NoItem == ""
NoPage == 0              \* no "next" relation / not a listing URL
None == [type |-> "None", message |-> ""]

\* ---------------------------------------------------------- pure helpers

Range(s) == {s[i] : i \in 1..Len(s)}

IsPrefixOf(s, t) == Len(s) <= Len(t) /\ SubSeq(t, 1, Len(s)) = s

\* str.startswith
StartsWith(s, prefix) == IsPrefixOf(prefix, s)

\* substring test, used to read error messages
Contains(s, sub) ==
    \E i \in 1..(Len(s) - Len(sub) + 1) : SubSeq(s, i, i + Len(sub) - 1) = sub

\* all sequences over S of length 0..n
SeqsUpTo(S, n) == UNION {[1..k -> S] : k \in 0..n}

\* sequences without a repeated element
Injective(s) == \A i, j \in 1..Len(s) : s[i] = s[j] => i = j

\* pathlib.Path(path).name: the part of the path after its last "/"
LastSlash(path) ==
    LET at == {i \in 1..Len(path) : SubSeq(path, i, i) = "/"}
    IN  IF at = {} THEN 0 ELSE CHOOSE i \in at : \A j \in at : j <= i

Basename(path) == SubSeq(path, LastSlash(path) + 1, Len(path))

\* ------------------------------------------------------------------ state

VARIABLES
    server,                           \* answers given so far: request -> response
    pc,                               \* the statement the program is at
    op,                               \* the sweep that is running
    kwargs,                           \* the keyword arguments the caller passed
    owner,                            \* the sweep's owner argument
    number_of_workflow_runs_to_keep,  \* the sweep's keep argument
    url,                              \* page of the paginated loop (NoPage: loop ends)
    collected,                        \* the list the running get_* call has built
    repositories,                     \* get_repositories' list, then the sweep's
    ri,                               \* position of the sweep in repositories
    workflows,                        \* get_workflows' list, then the sweep's
    wi,                               \* position of the sweep in workflows
    workflow_run_ids,                 \* get_workflow_runs' list
    workflow_run_ids_to_delete,       \* the deletion set of repository ri
    di,                               \* position of the sweep in the deletion set
    requests,                         \* HTTP requests of this sweep, in order
    outcomes,                         \* what each enable/delete call of this sweep did
    error,                            \* the exception that ended the sweep, or None
    history,                          \* the sweeps that ended before this one
    main,                             \* the line main is at ("idle": not called)
    environ,                          \* os.environ: variable name -> value
    cwd,                              \* pathlib.Path.cwd()
    files                             \* the .env files that exist: path -> lines

vars == <<server, pc, op, kwargs, owner, number_of_workflow_runs_to_keep, url, collected,
          repositories, ri, workflows, wi, workflow_run_ids,
          workflow_run_ids_to_delete, di, requests, outcomes, error, history,
          main, environ, cwd, files>>

\* what no step of a sweep changes
process == <<main, environ, cwd, files>>

\* ------------------------------------------------------------ HTTP layer

\* The URL (and method) of a request. page = 1 is the URL the program builds
\* itself ("...?per_page=100"); page > 1 is the URL of a "next" link.
Request(method, endpoint, o, repository, item, page) ==
    [method |-> method, endpoint |-> endpoint, owner |-> o,
     repository |-> repository, item |-> item,
     per_page |-> IF page = NoPage THEN NoPage ELSE PER_PAGE, page |-> page]

RepositoriesUrl(o, page) ==
    Request("GET", "users/repos", o, NoRepository, NoItem, page)
WorkflowsUrl(o, repository, page) ==
    Request("GET", "actions/workflows", o, repository, NoItem, page)
WorkflowRunsUrl(o, repository, page) ==
    Request("GET", "actions/runs", o, repository, NoItem, page)
EnableUrl(o, repository, workflow_filename) ==
    Request("PUT", "actions/workflows/enable", o, repository, workflow_filename, NoPage)
\* DeleteRunUrl that names the first repository of the account, not the one
\* whose runs were listed
DeleteRunUrlInFirstRepository(o, repository, run_id) ==
    Request("DELETE", "actions/runs/id", o, AllRepoNames[1], ToString(run_id), NoPage)
DeleteRunUrl(o, repository, run_id) ==
    Request("DELETE", "actions/runs/id", o, repository, ToString(run_id), NoPage)

\* What a request can come back with. transport = TRUE: no response at all
\* (connection error, timeout). Otherwise status, a body that is a JSON object
\* or not, the body's "message" field (NoMessage: none), the listing entries
\* of the page and the page of the "next" link; text and reason are the raw
\* body and the reason phrase, which the program reads only when the body is
\* no JSON.
TransportFailure ==
    [transport |-> TRUE, status |-> 0, json |-> FALSE, message |-> NoMessage,
     text |-> "", reason |-> "", entries |-> <<>>, next |-> NoPage]

ErrorResponse(status, message) ==
    [transport |-> FALSE, status |-> status, json |-> TRUE, message |-> message,
     text |-> "", reason |-> "", entries |-> <<>>, next |-> NoPage]

NotJsonResponse(status, text, reason) ==
    [transport |-> FALSE, status |-> status, json |-> FALSE, message |-> NoMessage,
     text |-> text, reason |-> reason, entries |-> <<>>, next |-> NoPage]

\* non-2xx answers: a JSON body with a message, one without, a body that is no JSON
ErrorResponses ==
    {ErrorResponse(404, m) : m \in ServerMessages \cup {NoMessage}}
        \cup {NotJsonResponse(502, "<html>Bad Gateway</html>", "Bad Gateway")}

OkResponse(status, entries, next) ==
    [transport |-> FALSE, status |-> status, json |-> TRUE, message |-> NoMessage,
     text |-> "", reason |-> "OK", entries |-> entries, next |-> next]

\* a 2xx page whose JSON object has no "workflows" / "workflow_runs" key
NoCollectionResponse(next) == [OkResponse(200, <<>>, next) EXCEPT !.text = "{}"]

\* an entry of a listing page that has none of "name", "path", "id"
ShapelessEntry == [node_id |-> "MDg6"]

\* response.raise_for_status() raises HTTPError for 4xx and 5xx
RaisesForStatus(resp) == resp.status >= 400 /\ resp.status < 600

\* response.links.get("next", {}).get("url", None)
NextLinks(page) == {NoPage} \cup {p \in {page + 1} : p <= MaxPages}

\* The server answers a URL it has answered before the same way.
Served(req, allowed) == IF req \in DOMAIN server THEN {server[req]} ELSE allowed

Remember(req, resp) == (req :> resp) @@ server

\* the response of a request that has been sent and not yet answered
Pending ==
    [transport |-> FALSE, status |-> 0, json |-> FALSE, message |-> NoMessage,
     text |-> "", reason |-> "pending", entries |-> <<>>, next |-> NoPage]

\* Issued for a request handed to a worker: the caller goes on before the
\* response is there
IssuedBeforeResponse(req, resp) == [request |-> req, response |-> Pending]

\* one entry of the request log: requests.get / put / delete return (or raise)
\* when the response is there (lines 295, 361, 409, 444, 508)
Issued(req, resp) == [request |-> req, response |-> resp]

\* the pages a listing endpoint can return
PageAnswers(entries, page) ==
    {OkResponse(200, e, n) : e \in entries, n \in NextLinks(page)}
        \cup ErrorResponses \cup {TransportFailure}

\* entries of a repository page: names in the server's (alphabetical) order,
\* none of them listed on an earlier page
RepositoryEntries(listed) ==
    {e \in SeqsUpTo(RepoNames \ Range(listed), MaxPageLen) :
        \A i, j \in 1..Len(e) : i < j =>
            \E a, b \in 1..MaxRepos :
                a < b /\ AllRepoNames[a] = e[i] /\ AllRepoNames[b] = e[j]}

WorkflowPaths ==
    {".github/workflows/ci.yml", "dynamic/dependabot/dependabot-updates",
     "dynamic/pages/pages-build-deployment"}

\* entries of a workflow page: paths, none of them listed on an earlier page
WorkflowEntries(listed) ==
    {e \in SeqsUpTo({p \in WorkflowPaths : Basename(p) \notin Range(listed)},
                    MaxPageLen) : Injective(e)}

\* entries of a run page: run identifiers in any order, none twice on the page
\* (a later page can repeat an identifier of an earlier one)
RunEntries == {e \in SeqsUpTo(RunIds, MaxPageLen) : Injective(e)}

\* number_of_workflow_runs_to_keep=50 (line 538)
MainRunsToKeep == 50

\* a run page with two more runs than main keeps, newest first
LongRunPage == [i \in 1..(MainRunsToKeep + 2) |-> MainRunsToKeep + 3 - i]

\* the run pages of a sweep: in main the sweep keeps 50 runs, and only a
\* listing longer than that leads to a delete request
RunPages == IF main = "idle" THEN RunEntries ELSE RunEntries \cup {LongRunPage}

\* ------------------------------------------------------------- exceptions

Raised(type, message) == [type |-> type, message |-> message]

\* what requests raises when no response arrives; not an HTTPError
ConnectionError == Raised("ConnectionError", "Connection failed")

\* entry[key] on an entry of a listing that has no such key
KeyError(key) == Raised("KeyError", "'" \o key \o "'")

\* exc.response.json() on a body that is no JSON
JSONDecodeError == Raised("JSONDecodeError", "Expecting value")

\* exc.response.json().get("message", "Error")
ErrorMessage(resp) == IF resp.message = NoMessage THEN "Error" ELSE resp.message

\* ---------------------------------------------------------- configuration

ConfigKeys == {"SECRET_GITHUB_OWNER", "SECRET_GITHUB_TOKEN"}

\* __file__ of keep_active.py, resolved, in a checkout of the repository at /repo
ModuleFile == "/repo/src/keep_github_workflows_active/keep_active.py"

\* pathlib.Path.parent
Parent(path) == SubSeq(path, 1, LastSlash(path) - 1)

\* path / ".env"
EnvFileIn(directory) == directory \o "/.env"

\* script_dir = pathlib.Path(__file__).resolve().parent (line 37)
ScriptDir == Parent(ModuleFile)

\* repo_root = script_dir.parent (line 38)
RepoRootOfCode == Parent(ScriptDir)

Whitespace == {" ", "\t", "\n"}

\* str.lstrip, str.rstrip, str.strip for a set of characters
RECURSIVE LStrip(_, _)
LStrip(s, chars) ==
    IF s # "" /\ SubSeq(s, 1, 1) \in chars
    THEN LStrip(SubSeq(s, 2, Len(s)), chars) ELSE s

RECURSIVE RStrip(_, _)
RStrip(s, chars) ==
    IF s # "" /\ SubSeq(s, Len(s), Len(s)) \in chars
    THEN RStrip(SubSeq(s, 1, Len(s) - 1), chars) ELSE s

StripChars(s, chars) == RStrip(LStrip(s, chars), chars)

\* str.partition for a one-character separator
Partition(s, sep) ==
    LET at == {i \in 1..Len(s) : SubSeq(s, i, i) = sep} IN
    IF at = {}
    THEN [head |-> s, separator |-> "", tail |-> ""]
    ELSE LET i == CHOOSE i \in at : \A j \in at : i <= j IN
         [head |-> SubSeq(s, 1, i - 1), separator |-> sep,
          tail |-> SubSeq(s, i + 1, Len(s))]

\* the loop of _read_env_file over the lines of a file (lines 78-85); values
\* is the dict built so far
RECURSIVE ReadEnvLines(_, _)
ReadEnvLines(lines, values) ==
    IF lines = <<>> THEN values
    ELSE LET stripped == StripChars(Head(lines), Whitespace)
             parts == Partition(stripped, "=")
             key == StripChars(parts.head, Whitespace)
             value == StripChars(StripChars(StripChars(parts.tail, Whitespace),
                                            {"\""}), {"'"}) IN
         IF stripped = "" \/ StartsWith(stripped, "#") \/ parts.separator = ""
         THEN ReadEnvLines(Tail(lines), values)
         ELSE ReadEnvLines(Tail(lines), (key :> value) @@ values)

\* _read_env_file(path)
ReadEnvFile(path) == ReadEnvLines(files[path], <<>>)

\* the loop of _candidate_env_files (lines 43-48)
RECURSIVE ExistingFiles(_, _)
ExistingFiles(candidates, seen) ==
    IF candidates = <<>> THEN <<>>
    ELSE LET resolved == Head(candidates) IN
         IF resolved \in seen \/ resolved \notin DOMAIN files
         THEN ExistingFiles(Tail(candidates), seen)
         ELSE <<resolved>> \o ExistingFiles(Tail(candidates), seen \cup {resolved})

\* _candidate_env_files(); the directories are resolved paths already
CandidateEnvFiles ==
    ExistingFiles(<<EnvFileIn(cwd), EnvFileIn(ScriptDir), EnvFileIn(RepoRootOfCode)>>, {})

\* dict.get(key) followed by "if value:": the value when the key is there and
\* its value is not empty, "" otherwise
TruthyValue(dict, key) == IF key \in DOMAIN dict THEN dict[key] ELSE ""

MissingConfiguration(key) ==
    Raised("RuntimeError", "Missing required configuration: " \o key)

\* the for loop of _lookup_config_value (lines 126-132)
RECURSIVE LookupInFiles(_, _)
LookupInFiles(env_files, key) ==
    IF env_files = <<>>
    THEN [returned |-> "", raised |-> MissingConfiguration(key)]
    ELSE LET file_value == TruthyValue(ReadEnvFile(Head(env_files)), key) IN
         IF file_value # ""
         THEN [returned |-> file_value, raised |-> None]
         ELSE LookupInFiles(Tail(env_files), key)

\* _lookup_config_value(key)
LookupConfigValue(key) ==
    LET env_value == TruthyValue(environ, key) IN
    IF env_value # ""
    THEN [returned |-> env_value, raised |-> None]
    ELSE LookupInFiles(CandidateEnvFiles, key)

\* the environment of a deployed run: both values in os.environ, no .env file
DeployedEnviron ==
    [k \in ConfigKeys |-> IF k = "SECRET_GITHUB_OWNER" THEN "bitranox" ELSE "ghp_token"]

\* ------------------------------------------------------------------ Init

\* nothing has been called yet
NoSweepRunning ==
    /\ pc = "idle"
    /\ op = "none"
    /\ kwargs = {}
    /\ owner = ""
    /\ number_of_workflow_runs_to_keep = 0
    /\ url = NoPage
    /\ collected = <<>>
    /\ repositories = <<>>
    /\ ri = 0
    /\ workflows = <<>>
    /\ wi = 0
    /\ workflow_run_ids = <<>>
    /\ workflow_run_ids_to_delete = <<>>
    /\ di = 0
    /\ requests = <<>>
    /\ outcomes = <<>>
    /\ error = None
    /\ history = <<>>
    /\ main = "idle"

NothingCalled ==
    /\ server = <<>>
    /\ NoSweepRunning

Init ==
    /\ NothingCalled
    /\ environ = DeployedEnviron
    /\ cwd = "/repo"
    /\ files = <<>>

\* ----------------------------------------------------- the caller's calls

\* the sweep that has ended, as the caller saw it
Ended ==
    [op |-> op, owner |-> owner, pc |-> pc, requests |-> requests,
     outcomes |-> outcomes, error |-> error]

\* EmptyList as a list that outlives the call (a module-level list, a mutable
\* default argument)
StaleList == repositories

\* repositories: list[str] = [] (line 289)
EmptyList == <<>>

\* Start with the repository list of the sweep before kept for the next one:
\* a sweep that finds a list does not fetch it again
StartWithCachedRepositories(sweep, o, keep, passed) ==
    /\ op' = sweep
    /\ kwargs' = passed
    /\ owner' = o
    /\ number_of_workflow_runs_to_keep' = keep
    /\ history' = IF pc = "idle" THEN history ELSE Append(history, Ended)
    /\ pc' = IF repositories = <<>> THEN "get_repositories"
             ELSE IF sweep = "enable_all_workflows" THEN "get_workflows"
             ELSE "get_workflow_runs"
    /\ url' = 1
    /\ collected' = <<>>
    /\ repositories' = repositories
    /\ ri' = IF repositories = <<>> THEN 0 ELSE 1
    /\ workflows' = <<>>
    /\ wi' = 0
    /\ workflow_run_ids' = <<>>
    /\ workflow_run_ids_to_delete' = <<>>
    /\ di' = 0
    /\ requests' = <<>>
    /\ outcomes' = <<>>
    /\ error' = None

\* the caller calls a sweep
Start(sweep, o, keep, passed) ==
    /\ op' = sweep
    /\ kwargs' = passed
    /\ owner' = o
    /\ number_of_workflow_runs_to_keep' = keep
    /\ history' = IF pc = "idle" THEN history ELSE Append(history, Ended)
    /\ pc' = "get_repositories"               \* lines 164, 191
    /\ url' = 1                               \* line 290
    /\ collected' = EmptyList                 \* line 289
    /\ repositories' = <<>>
    /\ ri' = 0
    /\ workflows' = <<>>
    /\ wi' = 0
    /\ workflow_run_ids' = <<>>
    /\ workflow_run_ids_to_delete' = <<>>
    /\ di' = 0
    /\ requests' = <<>>
    /\ outcomes' = <<>>
    /\ error' = None

\* enable_all_workflows(owner, github_token)
StartEnableAll ==
    /\ pc = "idle"
    /\ \E o \in Owners : Start("enable_all_workflows", o, 0, {"owner", "github_token"})
    /\ UNCHANGED <<server, process>>

\* delete_old_workflow_runs(owner, github_token, number_of_workflow_runs_to_keep)
StartDeleteOld ==
    /\ pc = "idle"
    /\ \E o \in Owners :
        \/ \E keep \in 0..MaxKeep :
                Start("delete_old_workflow_runs", o, keep,
                      {"owner", "github_token", "number_of_workflow_runs_to_keep"})
        \/ Start("delete_old_workflow_runs", o, DefaultRunsToKeep,
                 {"owner", "github_token"})
    /\ UNCHANGED <<server, process>>

\* the filenames enable_workflow is called with directly
Filenames ==
    {"ci.yml", "dependabot.yml", "dependabot-updates", "pages-build-deployment",
     "pages-build-deployment-x.yml", "pages-build.yml", "my-dependabot.yml",
     "Dependabot.yml", "depend"}

\* enable_workflow(owner, repository, workflow_filename, github_token) called
\* on its own, as its doctests do: the arguments stand where the loop
\* variables of enable_all_workflows are, and the call is the only turn.
CallEnableWorkflow ==
    /\ pc = "idle"
    /\ \E o \in Owners, repository \in RepoNames, workflow_filename \in Filenames :
        /\ op' = "enable_workflow"
        /\ kwargs' = {"owner", "repository", "workflow_filename", "github_token"}
        /\ owner' = o
        /\ repositories' = <<repository>>
        /\ ri' = 1
        /\ workflows' = <<workflow_filename>>
        /\ wi' = 1
        /\ pc' = "enable_workflow"
    /\ UNCHANGED <<server, number_of_workflow_runs_to_keep, url, collected,
                   workflow_run_ids, workflow_run_ids_to_delete, di, requests,
                   outcomes, error, history, process>>

\* enable_all_workflows called again, for the same owner, after it has ended
EnableAllAgain ==
    /\ pc \in {"done", "failed"}
    /\ op = "enable_all_workflows"
    /\ Len(history) + 1 < MaxSweeps
    /\ Start("enable_all_workflows", owner, 0, kwargs)
    /\ UNCHANGED <<server, process>>

\* ------------------------------------------------------ control of a sweep

\* the HTTP requests of the process so far: those of the running sweep and, in
\* main, those of the sweep before it
RequestsIssued ==
    Len(requests)
        + (IF main = "idle" \/ history = <<>> THEN 0 ELSE Len(history[1].requests))

\* an exception leaves the sweep: nothing catches it in either sweep
Fail(exc) ==
    /\ pc' = "failed"
    /\ error' = exc
    /\ url' = NoPage
    /\ collected' = <<>>
    /\ UNCHANGED <<repositories, ri, workflows, wi, workflow_run_ids,
                   workflow_run_ids_to_delete, di>>

\* The for loop over the repositories (lines 165-166, 192-193) takes the
\* repository at position i of repos and calls the listing of its items, or
\* ends the sweep when repos has no position i.
EnterRepository(repos, i) ==
    /\ ri' = i
    /\ collected' = <<>>                                   \* lines 355, 406
    /\ workflows' = <<>>
    /\ wi' = 0
    /\ workflow_run_ids' = <<>>
    /\ workflow_run_ids_to_delete' = <<>>
    /\ di' = 0
    /\ IF i > Len(repos)
       THEN pc' = "done" /\ url' = NoPage
       ELSE /\ url' = 1                                    \* lines 356, 403
            /\ pc' = IF op = "enable_all_workflows"
                     THEN "get_workflows" ELSE "get_workflow_runs"

\* ListingRaises with a break in place of the raise: get_repositories returns
\* what it has collected and the sweep goes on
ListingReturnsPartial(exc) ==
    IF pc = "get_repositories"
    THEN /\ repositories' = collected
         /\ EnterRepository(collected, 1)
         /\ error' = error
    ELSE Fail(exc)

\* ListingRaises with the failure of one repository's listing caught in the
\* sweep's loop: the sweep goes on with the next repository
ListingSkipsRepository(exc) ==
    IF pc \in {"get_workflows", "get_workflow_runs"}
    THEN /\ EnterRepository(repositories, ri + 1)
         /\ error' = error
         /\ UNCHANGED repositories
    ELSE Fail(exc)

\* ListingRaises with a retry: the loop stays at the page that failed
ListingRetries(exc) ==
    /\ error' = error
    /\ UNCHANGED <<pc, url, collected, repositories, ri, workflows, wi,
                   workflow_run_ids, workflow_run_ids_to_delete, di>>

\* entry[key] in the list comprehension of a listing raises (lines 298, 364, 414)
LacksKey(data, key) == \E i \in 1..Len(data) : key \notin DOMAIN data[i]

\* raise in a get_* function (lines 307, 373, 423, and what requests raises
\* itself): the exception leaves the function and, uncaught, the sweep
ListingRaises(exc) == Fail(exc)

\* NextUrl that never follows a link: the loop ends after the first page
NoNextUrl(resp) == NoPage

\* NextUrl that keeps to pages not yet visited: a link that does not lead
\* forward ends the loop
NextUrlForwardOnly(resp) == IF resp.next > url THEN resp.next ELSE NoPage

\* url = response.links.get("next", {}).get("url", None) (lines 301, 367, 417)
NextUrl(resp) == resp.next

\* ------------------------------------------------------- get_repositories

\* [repo["name"] for repo in data]
RepositoryNames(data) == [i \in 1..Len(data) |-> data[i].name]

\* RepositoriesError without the server's message
RepositoriesErrorWithoutCause(o, resp) ==
    Raised("RuntimeError", "ERROR reading repositories for user " \o o)

RepositoriesError(o, resp) ==
    Raised("RuntimeError",
           "ERROR reading repositories for user " \o o \o ": " \o ErrorMessage(resp))

\* Extend that puts the new page in front
ExtendInFront(list, items) == items \o list

\* list.extend
Extend(list, items) == list \o items

\* One turn of the while loop of get_repositories, and its return to the sweep
\* when the page has no next link.
GetRepositories ==
    /\ pc = "get_repositories"
    /\ RequestsIssued < MaxRequests
    /\ LET req == RepositoriesUrl(owner, url) IN
       \E resp \in Served(req, PageAnswers(
                    {[i \in 1..Len(e) |-> [name |-> e[i]]] :
                        e \in RepositoryEntries(collected)}, url)) :
        /\ server' = Remember(req, resp)
        /\ requests' = Append(requests, Issued(req, resp))
        /\ IF resp.transport
           THEN ListingRaises(ConnectionError)
           ELSE IF RaisesForStatus(resp)
           THEN ListingRaises(IF resp.json THEN RepositoriesError(owner, resp)
                              ELSE JSONDecodeError)
           ELSE IF LacksKey(resp.entries, "name")
           THEN ListingRaises(KeyError("name"))
           ELSE LET all == Extend(collected, RepositoryNames(resp.entries)) IN
                /\ error' = error
                /\ IF NextUrl(resp) # NoPage
                   THEN /\ collected' = all
                        /\ url' = NextUrl(resp)
                        /\ UNCHANGED <<pc, repositories, ri, workflows, wi,
                                       workflow_run_ids, workflow_run_ids_to_delete, di>>
                   ELSE /\ repositories' = all
                        /\ EnterRepository(all, 1)
    /\ UNCHANGED process
    /\ UNCHANGED <<op, kwargs, owner, number_of_workflow_runs_to_keep, outcomes, history>>

\* ----------------------------------------------------------- get_workflows

\* [pathlib.Path(workflow["path"]).name for workflow in data.get("workflows", [])]
WorkflowNames(data) == [i \in 1..Len(data) |-> Basename(data[i].path)]

WorkflowsError(o, repository, resp) ==
    Raised("RuntimeError",
           "ERROR reading workflows for user: " \o o \o ", repository: "
               \o repository \o ", " \o ErrorMessage(resp))

\* One turn of the while loop of get_workflows, and its return to
\* enable_all_workflows when the page has no next link.
GetWorkflows ==
    /\ pc = "get_workflows"
    /\ RequestsIssued < MaxRequests
    /\ LET repository == repositories[ri]
           req == WorkflowsUrl(owner, repository, url) IN
       \E resp \in Served(req, PageAnswers(
                    {[i \in 1..Len(e) |-> [path |-> e[i]]] :
                        e \in WorkflowEntries(collected)}, url)) :
        /\ server' = Remember(req, resp)
        /\ requests' = Append(requests, Issued(req, resp))
        /\ IF resp.transport
           THEN ListingRaises(ConnectionError)
           ELSE IF RaisesForStatus(resp)
           THEN ListingRaises(IF resp.json THEN WorkflowsError(owner, repository, resp)
                              ELSE JSONDecodeError)
           ELSE IF LacksKey(resp.entries, "path")
           THEN ListingRaises(KeyError("path"))
           ELSE LET all == Extend(collected, WorkflowNames(resp.entries)) IN
                /\ error' = error
                /\ UNCHANGED <<repositories, workflow_run_ids,
                               workflow_run_ids_to_delete, di>>
                /\ IF NextUrl(resp) # NoPage
                   THEN /\ collected' = all
                        /\ url' = NextUrl(resp)
                        /\ UNCHANGED <<pc, ri, workflows, wi>>
                   ELSE IF all = <<>>
                   THEN EnterRepository(repositories, ri + 1)  \* no workflow: line 165
                   ELSE /\ workflows' = all                      \* line 166
                        /\ wi' = 1                               \* line 167
                        /\ pc' = "enable_workflow"
                        /\ url' = NoPage
                        /\ collected' = <<>>
                        /\ UNCHANGED ri
    /\ UNCHANGED process
    /\ UNCHANGED <<op, kwargs, owner, number_of_workflow_runs_to_keep, outcomes, history>>

\* --------------------------------------------------------- enable_workflow

\* what one call of enable_workflow or delete_workflow_run did
Outcome(call, repository, item, returned, logged, raised) ==
    [call |-> call, repository |-> repository, item |-> item,
     returned |-> returned, logged |-> logged, raised |-> raised]

PagesSkipped(repository, workflow_filename) ==
    "Repository " \o repository \o ", workflow " \o workflow_filename
        \o " skipped - those can not be enabled"

DependabotSkipped(repository, workflow_filename) ==
    "Repository " \o repository \o ", workflow " \o workflow_filename
        \o " skipped - managed by Dependabot"

Enabled(repository, workflow_filename) ==
    "Enabled repository " \o repository \o ", workflow " \o workflow_filename

\* EnableErrorMessage without the except ValueError branch
EnableErrorMessageOfJsonOnly(resp) == ErrorMessage(resp)

\* lines 516-522; exc.response is the response of the failed request
EnableErrorMessage(resp) ==
    IF resp.json THEN ErrorMessage(resp)
    ELSE IF resp.text # "" THEN resp.text
    ELSE IF resp.reason # "" THEN resp.reason
    ELSE "Error"

EnableError(repository, workflow_filename, resp) ==
    Raised("RuntimeError",
           "ERROR enabling repository " \o repository \o ", workflow "
               \o workflow_filename \o ": " \o EnableErrorMessage(resp))

\* what the enable endpoint can answer
EnableAnswers ==
    {OkResponse(204, <<>>, NoPage), TransportFailure}
        \cup {ErrorResponse(404, m) : m \in ServerMessages \cup {NoMessage}}
        \cup {NotJsonResponse(502, "<html>Bad Gateway</html>", "Bad Gateway"),
              NotJsonResponse(502, "", "Bad Gateway"),
              NotJsonResponse(502, "", "")}

\* line 503
IsPagesBuildDeployment(workflow_filename) ==
    StartsWith(workflow_filename, "pages-build-deployment")

\* IsDependabot with "in" for startswith
IsDependabotAnywhere(workflow_filename) == Contains(workflow_filename, "dependabot")

\* line 505
IsDependabot(workflow_filename) == StartsWith(workflow_filename, "dependabot")

\* AfterEnable that leaves the inner loop after the first workflow
AfterEnableNextRepository == EnterRepository(repositories, ri + 1)

\* lines 167-169: the inner for loop goes on to the next workflow, or the
\* outer one to the next repository
AfterEnable ==
    IF wi < Len(workflows)
    THEN /\ wi' = wi + 1
         /\ UNCHANGED <<pc, url, collected, ri, workflows, workflow_run_ids,
                        workflow_run_ids_to_delete, di>>
    ELSE EnterRepository(repositories, ri + 1)

\* One call of enable_workflow from the loop of enable_all_workflows.
EnableWorkflow ==
    /\ pc = "enable_workflow"
    /\ LET repository == repositories[ri]
           workflow_filename == workflows[wi]
           req == EnableUrl(owner, repository, workflow_filename)
           Call(returned, logged, raised) ==
               Outcome("enable_workflow", repository, workflow_filename,
                       returned, logged, raised) IN
       IF IsPagesBuildDeployment(workflow_filename)
       THEN /\ outcomes' = Append(outcomes,
                    Call(PagesSkipped(repository, workflow_filename), "", None))
            /\ AfterEnable
            /\ UNCHANGED <<server, requests, error>>
       ELSE IF IsDependabot(workflow_filename)
       THEN /\ outcomes' = Append(outcomes,
                    Call(DependabotSkipped(repository, workflow_filename), "", None))
            /\ AfterEnable
            /\ UNCHANGED <<server, requests, error>>
       ELSE \E resp \in Served(req, EnableAnswers) :
            /\ RequestsIssued < MaxRequests
            /\ server' = Remember(req, resp)
            /\ requests' = Append(requests, Issued(req, resp))
            /\ IF resp.transport
               THEN /\ outcomes' = Append(outcomes, Call("", "", ConnectionError))
                    /\ Fail(ConnectionError)
               ELSE IF RaisesForStatus(resp)
               THEN LET exc == EnableError(repository, workflow_filename, resp) IN
                    /\ outcomes' = Append(outcomes, Call("", exc.message, exc))
                    /\ Fail(exc)
               ELSE LET result == Enabled(repository, workflow_filename) IN
                    /\ outcomes' = Append(outcomes, Call(result, result, None))
                    /\ AfterEnable
                    /\ error' = error
    /\ UNCHANGED process
    /\ UNCHANGED <<op, kwargs, owner, number_of_workflow_runs_to_keep, repositories, history>>

\* ------------------------------------------------------- get_workflow_runs

\* [run["id"] for run in data.get("workflow_runs", [])]
RunIdsOf(data) == [i \in 1..Len(data) |-> data[i].id]

WorkflowRunsError(o, repository, resp) ==
    Raised("RuntimeError",
           "ERROR reading workflow runs for user: " \o o \o ", repository: "
               \o repository \o ", " \o ErrorMessage(resp))

\* sorted(ids, reverse=True)
SortedDescending(ids) == SortSeq(ids, LAMBDA a, b : a > b)

\* workflow_run_ids_sorted[number_of_workflow_runs_to_keep:]
SliceFrom(s, keep) == SubSeq(s, keep + 1, Len(s))

\* lines 194-195
RunIdsToDelete(ids, keep) == SliceFrom(SortedDescending(ids), keep)

\* One turn of the while loop of get_workflow_runs, and its return to
\* delete_old_workflow_runs when the page has no next link.
GetWorkflowRuns ==
    /\ pc = "get_workflow_runs"
    /\ RequestsIssued < MaxRequests
    /\ LET repository == repositories[ri]
           req == WorkflowRunsUrl(owner, repository, url) IN
       \E resp \in Served(req, PageAnswers(
                    {[i \in 1..Len(e) |-> [id |-> e[i]]] : e \in RunPages}, url)) :
        /\ server' = Remember(req, resp)
        /\ requests' = Append(requests, Issued(req, resp))
        /\ IF resp.transport
           THEN ListingRaises(ConnectionError)
           ELSE IF RaisesForStatus(resp)
           THEN ListingRaises(IF resp.json THEN WorkflowRunsError(owner, repository, resp)
                              ELSE JSONDecodeError)
           ELSE IF LacksKey(resp.entries, "id")
           THEN ListingRaises(KeyError("id"))
           ELSE LET all == Extend(collected, RunIdsOf(resp.entries))
                    to_delete == RunIdsToDelete(all, number_of_workflow_runs_to_keep) IN
                /\ error' = error
                /\ UNCHANGED <<repositories, workflows, wi>>
                /\ IF NextUrl(resp) # NoPage
                   THEN /\ collected' = all
                        /\ url' = NextUrl(resp)
                        /\ UNCHANGED <<pc, ri, workflow_run_ids,
                                       workflow_run_ids_to_delete, di>>
                   ELSE IF to_delete = <<>>
                   THEN EnterRepository(repositories, ri + 1)  \* nothing to delete
                   ELSE /\ workflow_run_ids' = all               \* line 193
                        /\ workflow_run_ids_to_delete' = to_delete
                        /\ di' = 1                               \* line 197
                        /\ pc' = "delete_workflow_run"
                        /\ url' = NoPage
                        /\ collected' = <<>>
                        /\ UNCHANGED ri
    /\ UNCHANGED process
    /\ UNCHANGED <<op, kwargs, owner, number_of_workflow_runs_to_keep, outcomes, history>>

\* ----------------------------------------------------- delete_workflow_run

Deleted(o, repository, run_id) ==
    "Deleted workflow run ID: " \o run_id \o " for user: " \o o
        \o ", repository: " \o repository

\* lines 452-454
DeleteError(o, repository, run_id, exc) ==
    Raised("RuntimeError",
           "ERROR deleting workflow run ID: " \o run_id \o " for user: "
               \o o \o ", repository: " \o repository \o ": " \o exc.message)

\* what the delete endpoint can answer
DeleteAnswers ==
    {OkResponse(204, <<>>, NoPage), ErrorResponse(404, "Not Found"), TransportFailure}

\* line 446
IsNoContent(resp) == resp.status = 204

\* lines 197-199: the inner for loop goes on to the next run, or the outer one
\* to the next repository
AfterDelete ==
    IF di < Len(workflow_run_ids_to_delete)
    THEN /\ di' = di + 1
         /\ UNCHANGED <<pc, url, collected, ri, workflows, wi, workflow_run_ids,
                        workflow_run_ids_to_delete>>
    ELSE EnterRepository(repositories, ri + 1)

\* One call of delete_workflow_run from the loop of delete_old_workflow_runs.
DeleteWorkflowRun ==
    /\ pc = "delete_workflow_run"
    /\ RequestsIssued < MaxRequests
    /\ LET repository == repositories[ri]
           run_id_to_delete == workflow_run_ids_to_delete[di]
           req == DeleteRunUrl(owner, repository, run_id_to_delete)
           Call(returned, logged, raised) ==
               Outcome("delete_workflow_run", repository, ToString(run_id_to_delete),
                       returned, logged, raised) IN
       \E resp \in Served(req, DeleteAnswers) :
        /\ server' = Remember(req, resp)
        /\ requests' = Append(requests, Issued(req, resp))
        /\ IF resp.transport
           THEN LET exc == DeleteError(owner, repository,
                                       ToString(run_id_to_delete), ConnectionError) IN
                /\ outcomes' = Append(outcomes, Call("", exc.message, exc))
                /\ Fail(exc)
           ELSE /\ outcomes' = Append(outcomes,
                       Call("None",
                            IF IsNoContent(resp)
                            THEN Deleted(owner, repository, ToString(run_id_to_delete))
                            ELSE "",
                            None))
                /\ AfterDelete
                /\ error' = error
    /\ UNCHANGED process
    /\ UNCHANGED <<op, kwargs, owner, number_of_workflow_runs_to_keep, repositories, history>>

\* ------------------------------------ keep_github_workflows_active.py (legacy)

\* The legacy module has the same sweeps and the same five functions as
\* keep_active.py. Its requests carry no timeout (lines 173, 242, 293, 331,
\* 395), enable_workflow skips pages-build-deployment only (line 392) and its
\* handler reads response.json() without a fallback (line 402).

\* a request on which the server accepts the connection and never answers:
\* with timeout=REQUEST_TIMEOUT_SECONDS requests raises after that time, like
\* for any request without response; without timeout the call does not return
Stalled == [TransportFailure EXCEPT !.reason = "no answer"]

\* requests.get / put / delete without timeout on a request that is never
\* answered: the call does not return
Blocked ==
    /\ pc' = "blocked"
    /\ UNCHANGED <<error, url, collected, repositories, ri, workflows, wi,
                   workflow_run_ids, workflow_run_ids_to_delete, di>>

\* lines 401-405: response.json() raises for a body that is no JSON
LegacyEnableError(repository, workflow_filename, resp) ==
    IF resp.json
    THEN Raised("RuntimeError",
                "ERROR enabling repository " \o repository \o ", workflow "
                    \o workflow_filename \o ": " \o ErrorMessage(resp))
    ELSE JSONDecodeError

\* The caller calls the sweep of the legacy module that corresponds to the
\* sweep of keep_active.py that has ended, with the same arguments and
\* against the same server (lines 48, 74).
StartLegacy ==
    /\ pc \in {"done", "failed"}
    /\ op \in {"enable_all_workflows", "delete_old_workflow_runs"}
    /\ op' = "legacy " \o op
    /\ history' = Append(history, Ended)
    /\ pc' = "legacy get_repositories"
    /\ url' = 1
    /\ collected' = <<>>
    /\ repositories' = <<>>
    /\ ri' = 0
    /\ workflows' = <<>>
    /\ wi' = 0
    /\ workflow_run_ids' = <<>>
    /\ workflow_run_ids_to_delete' = <<>>
    /\ di' = 0
    /\ requests' = <<>>
    /\ outcomes' = <<>>
    /\ error' = None
    /\ UNCHANGED <<server, kwargs, owner, number_of_workflow_runs_to_keep, process>>

\* the for loop over the repositories (lines 49-50, 75-76)
LegacyEnterRepository(repos, i) ==
    /\ ri' = i
    /\ collected' = <<>>
    /\ workflows' = <<>>
    /\ wi' = 0
    /\ workflow_run_ids' = <<>>
    /\ workflow_run_ids_to_delete' = <<>>
    /\ di' = 0
    /\ IF i > Len(repos)
       THEN pc' = "done" /\ url' = NoPage
       ELSE /\ url' = 1
            /\ pc' = IF op = "legacy enable_all_workflows"
                     THEN "legacy get_workflows" ELSE "legacy get_workflow_runs"

\* one turn of the while loop of get_repositories (lines 171-185)
LegacyGetRepositories ==
    /\ pc = "legacy get_repositories"
    /\ RequestsIssued < MaxRequests
    /\ LET req == RepositoriesUrl(owner, url) IN
       \E resp \in Served(req, PageAnswers(
                    {[i \in 1..Len(e) |-> [name |-> e[i]]] :
                        e \in RepositoryEntries(collected)}, url)) :
        /\ server' = Remember(req, resp)
        /\ requests' = Append(requests, Issued(req, resp))
        /\ IF resp = Stalled
           THEN Blocked
           ELSE IF resp.transport
           THEN ListingRaises(ConnectionError)
           ELSE IF RaisesForStatus(resp)
           THEN ListingRaises(IF resp.json THEN RepositoriesError(owner, resp)
                              ELSE JSONDecodeError)
           ELSE IF LacksKey(resp.entries, "name")
           THEN ListingRaises(KeyError("name"))
           ELSE LET all == Extend(collected, RepositoryNames(resp.entries)) IN
                /\ error' = error
                /\ IF NextUrl(resp) # NoPage
                   THEN /\ collected' = all
                        /\ url' = NextUrl(resp)
                        /\ UNCHANGED <<pc, repositories, ri, workflows, wi,
                                       workflow_run_ids, workflow_run_ids_to_delete, di>>
                   ELSE /\ repositories' = all
                        /\ LegacyEnterRepository(all, 1)
    /\ UNCHANGED process
    /\ UNCHANGED <<op, kwargs, owner, number_of_workflow_runs_to_keep, outcomes, history>>

\* one turn of the while loop of get_workflows (lines 240-254)
LegacyGetWorkflows ==
    /\ pc = "legacy get_workflows"
    /\ RequestsIssued < MaxRequests
    /\ LET repository == repositories[ri]
           req == WorkflowsUrl(owner, repository, url) IN
       \E resp \in Served(req, PageAnswers(
                    {[i \in 1..Len(e) |-> [path |-> e[i]]] :
                        e \in WorkflowEntries(collected)}, url)) :
        /\ server' = Remember(req, resp)
        /\ requests' = Append(requests, Issued(req, resp))
        /\ IF resp = Stalled
           THEN Blocked
           ELSE IF resp.transport
           THEN ListingRaises(ConnectionError)
           ELSE IF RaisesForStatus(resp)
           THEN ListingRaises(IF resp.json THEN WorkflowsError(owner, repository, resp)
                              ELSE JSONDecodeError)
           ELSE IF LacksKey(resp.entries, "path")
           THEN ListingRaises(KeyError("path"))
           ELSE LET all == Extend(collected, WorkflowNames(resp.entries)) IN
                /\ error' = error
                /\ UNCHANGED <<repositories, workflow_run_ids,
                               workflow_run_ids_to_delete, di>>
                /\ IF NextUrl(resp) # NoPage
                   THEN /\ collected' = all
                        /\ url' = NextUrl(resp)
                        /\ UNCHANGED <<pc, ri, workflows, wi>>
                   ELSE IF all = <<>>
                   THEN LegacyEnterRepository(repositories, ri + 1)
                   ELSE /\ workflows' = all
                        /\ wi' = 1
                        /\ pc' = "legacy enable_workflow"
                        /\ url' = NoPage
                        /\ collected' = <<>>
                        /\ UNCHANGED ri
    /\ UNCHANGED process
    /\ UNCHANGED <<op, kwargs, owner, number_of_workflow_runs_to_keep, outcomes, history>>

\* lines 51-53: the next workflow, or the next repository
LegacyAfterEnable ==
    IF wi < Len(workflows)
    THEN /\ wi' = wi + 1
         /\ UNCHANGED <<pc, url, collected, ri, workflows, workflow_run_ids,
                        workflow_run_ids_to_delete, di>>
    ELSE LegacyEnterRepository(repositories, ri + 1)

\* one call of enable_workflow (lines 391-405) from the loop of
\* enable_all_workflows
LegacyEnableWorkflow ==
    /\ pc = "legacy enable_workflow"
    /\ LET repository == repositories[ri]
           workflow_filename == workflows[wi]
           req == EnableUrl(owner, repository, workflow_filename)
           Call(returned, logged, raised) ==
               Outcome("enable_workflow", repository, workflow_filename,
                       returned, logged, raised) IN
       IF IsPagesBuildDeployment(workflow_filename)
       THEN /\ outcomes' = Append(outcomes,
                    Call(PagesSkipped(repository, workflow_filename), "", None))
            /\ LegacyAfterEnable
            /\ UNCHANGED <<server, requests, error>>
       ELSE \E resp \in Served(req, EnableAnswers) :
            /\ RequestsIssued < MaxRequests
            /\ server' = Remember(req, resp)
            /\ requests' = Append(requests, Issued(req, resp))
            /\ IF resp = Stalled
               THEN Blocked /\ outcomes' = outcomes
               ELSE IF resp.transport
               THEN /\ outcomes' = Append(outcomes, Call("", "", ConnectionError))
                    /\ Fail(ConnectionError)
               ELSE IF RaisesForStatus(resp)
               THEN LET exc == LegacyEnableError(repository, workflow_filename, resp) IN
                    /\ outcomes' = Append(outcomes, Call("", exc.message, exc))
                    /\ Fail(exc)
               ELSE LET result == Enabled(repository, workflow_filename) IN
                    /\ outcomes' = Append(outcomes, Call(result, result, None))
                    /\ LegacyAfterEnable
                    /\ error' = error
    /\ UNCHANGED process
    /\ UNCHANGED <<op, kwargs, owner, number_of_workflow_runs_to_keep, repositories, history>>

\* one turn of the while loop of get_workflow_runs (lines 291-307), and lines
\* 77-78 of the sweep when the listing has returned
LegacyGetWorkflowRuns ==
    /\ pc = "legacy get_workflow_runs"
    /\ RequestsIssued < MaxRequests
    /\ LET repository == repositories[ri]
           req == WorkflowRunsUrl(owner, repository, url) IN
       \E resp \in Served(req, PageAnswers(
                    {[i \in 1..Len(e) |-> [id |-> e[i]]] : e \in RunPages}, url)) :
        /\ server' = Remember(req, resp)
        /\ requests' = Append(requests, Issued(req, resp))
        /\ IF resp = Stalled
           THEN Blocked
           ELSE IF resp.transport
           THEN ListingRaises(ConnectionError)
           ELSE IF RaisesForStatus(resp)
           THEN ListingRaises(IF resp.json THEN WorkflowRunsError(owner, repository, resp)
                              ELSE JSONDecodeError)
           ELSE IF LacksKey(resp.entries, "id")
           THEN ListingRaises(KeyError("id"))
           ELSE LET all == Extend(collected, RunIdsOf(resp.entries))
                    to_delete == RunIdsToDelete(all, number_of_workflow_runs_to_keep) IN
                /\ error' = error
                /\ UNCHANGED <<repositories, workflows, wi>>
                /\ IF NextUrl(resp) # NoPage
                   THEN /\ collected' = all
                        /\ url' = NextUrl(resp)
                        /\ UNCHANGED <<pc, ri, workflow_run_ids,
                                       workflow_run_ids_to_delete, di>>
                   ELSE IF to_delete = <<>>
                   THEN LegacyEnterRepository(repositories, ri + 1)  \* nothing to delete
                   ELSE /\ workflow_run_ids' = all
                        /\ workflow_run_ids_to_delete' = to_delete
                        /\ di' = 1
                        /\ pc' = "legacy delete_workflow_run"
                        /\ url' = NoPage
                        /\ collected' = <<>>
                        /\ UNCHANGED ri
    /\ UNCHANGED process
    /\ UNCHANGED <<op, kwargs, owner, number_of_workflow_runs_to_keep, outcomes, history>>

\* lines 80-82: the next run, or the next repository
LegacyAfterDelete ==
    IF di < Len(workflow_run_ids_to_delete)
    THEN /\ di' = di + 1
         /\ UNCHANGED <<pc, url, collected, ri, workflows, wi, workflow_run_ids,
                        workflow_run_ids_to_delete>>
    ELSE LegacyEnterRepository(repositories, ri + 1)

\* one call of delete_workflow_run (lines 330-341) from the loop of
\* delete_old_workflow_runs
LegacyDeleteWorkflowRun ==
    /\ pc = "legacy delete_workflow_run"
    /\ RequestsIssued < MaxRequests
    /\ LET repository == repositories[ri]
           run_id_to_delete == workflow_run_ids_to_delete[di]
           req == DeleteRunUrl(owner, repository, run_id_to_delete)
           Call(returned, logged, raised) ==
               Outcome("delete_workflow_run", repository, ToString(run_id_to_delete),
                       returned, logged, raised) IN
       \E resp \in Served(req, DeleteAnswers) :
        /\ server' = Remember(req, resp)
        /\ requests' = Append(requests, Issued(req, resp))
        /\ IF resp = Stalled
           THEN Blocked /\ outcomes' = outcomes
           ELSE IF resp.transport
           THEN LET exc == DeleteError(owner, repository,
                                       ToString(run_id_to_delete), ConnectionError) IN
                /\ outcomes' = Append(outcomes, Call("", exc.message, exc))
                /\ Fail(exc)
           ELSE /\ outcomes' = Append(outcomes,
                       Call("None",
                            IF IsNoContent(resp)
                            THEN Deleted(owner, repository, ToString(run_id_to_delete))
                            ELSE "",
                            None))
                /\ LegacyAfterDelete
                /\ error' = error
    /\ UNCHANGED process
    /\ UNCHANGED <<op, kwargs, owner, number_of_workflow_runs_to_keep, repositories, history>>

\* ------------------------------------------------------------------- main

\* Credentials that looks up the owner only: the token is not resolved before
\* the sweep is called
CredentialsOwnerOnly == LookupConfigValue("SECRET_GITHUB_OWNER")

\* get_owner() and get_github_token(), in the order the arguments of a sweep
\* are evaluated: the owner, or the first lookup that raised
Credentials ==
    LET o == LookupConfigValue("SECRET_GITHUB_OWNER")
        t == LookupConfigValue("SECRET_GITHUB_TOKEN") IN
    IF o.raised # None THEN o ELSE IF t.raised # None THEN t ELSE o

\* a lookup raised: the exception leaves main before the sweep is called
MainRaises(exc) ==
    /\ pc' = "failed"
    /\ error' = exc
    /\ UNCHANGED <<op, kwargs, owner, number_of_workflow_runs_to_keep, url,
                   collected, repositories, ri, workflows, wi, workflow_run_ids,
                   workflow_run_ids_to_delete, di, requests, outcomes, history>>

\* what the server can answer after some time: as before, or with another set
\* of repositories
LaterServers ==
    {server,
     [r \in {q \in DOMAIN server : q.endpoint # "users/repos"} |-> server[r]]}

\* line 537: enable_all_workflows(owner=get_owner(), github_token=get_github_token())
MainEnableAll ==
    /\ main = "idle"
    /\ pc = "idle"
    /\ main' = "line 537"
    /\ IF Credentials.raised # None
       THEN MainRaises(Credentials.raised)
       ELSE Start("enable_all_workflows", Credentials.returned, 0,
                  {"owner", "github_token"})
    /\ UNCHANGED <<server, environ, cwd, files>>

\* MainDeleteOld in a main that catches the exception of line 537 and goes on
MainDeleteOldAfterFailure ==
    /\ main = "line 537"
    /\ pc \in {"done", "failed"}
    /\ main' = "line 538"
    /\ server' \in LaterServers
    /\ IF Credentials.raised # None
       THEN MainRaises(Credentials.raised)
       ELSE Start("delete_old_workflow_runs", Credentials.returned, MainRunsToKeep,
                  {"owner", "github_token", "number_of_workflow_runs_to_keep"})
    /\ UNCHANGED <<environ, cwd, files>>

\* line 538: delete_old_workflow_runs(owner=get_owner(),
\* github_token=get_github_token(), number_of_workflow_runs_to_keep=50), which
\* main reaches when enable_all_workflows has returned
MainDeleteOld ==
    /\ main = "line 537"
    /\ pc = "done"
    /\ main' = "line 538"
    /\ server' \in LaterServers
    /\ IF Credentials.raised # None
       THEN MainRaises(Credentials.raised)
       ELSE Start("delete_old_workflow_runs", Credentials.returned, MainRunsToKeep,
                  {"owner", "github_token", "number_of_workflow_runs_to_keep"})
    /\ UNCHANGED <<environ, cwd, files>>

\* os.environ with the given variables only
EnvironWith(keys) == [k \in keys |-> DeployedEnviron[k]]

\* a .env file in the working directory that has the owner
LocalEnvFile ==
    EnvFileIn("/repo") :> <<"# local settings", "SECRET_GITHUB_OWNER = 'bitranox'">>

\* The .env files are removed while main is between its two sweeps (nothing
\* but the lookups of line 538 reads them after that).
EnvFilesRemoved ==
    /\ main = "line 537"
    /\ pc = "done"
    /\ files # <<>>
    /\ files' = <<>>
    /\ UNCHANGED <<server, pc, op, kwargs, owner, number_of_workflow_runs_to_keep,
                   url, collected, repositories, ri, workflows, wi, workflow_run_ids,
                   workflow_run_ids_to_delete, di, requests, outcomes, error,
                   history, main, environ, cwd>>

\* the environments main is run in: both values in os.environ; the token in
\* os.environ and the owner in a .env file; the owner nowhere; the token
\* nowhere
MainEnvironments ==
    {[environ |-> EnvironWith(ConfigKeys), files |-> <<>>],
     [environ |-> EnvironWith({"SECRET_GITHUB_TOKEN"}), files |-> LocalEnvFile],
     [environ |-> EnvironWith({"SECRET_GITHUB_TOKEN"}), files |-> <<>>],
     [environ |-> EnvironWith({"SECRET_GITHUB_OWNER"}), files |-> LocalEnvFile]}

InitMain ==
    /\ NothingCalled
    /\ cwd = "/repo"
    /\ \E e \in MainEnvironments : environ = e.environ /\ files = e.files

\* main has returned / has ended with an exception
MainReturned == main = "line 538" /\ pc = "done"
MainFailed == main # "idle" /\ pc = "failed"

\* ------------------------------------------------- the lookup on its own

\* the directories of a run: somewhere else, the checkout, and the two
\* directories the code derives from __file__
Directories == {"/home/user", "/repo", RepoRootOfCode, ScriptDir}

\* what a .env file in a directory can hold: the owner (a value that tells the
\* files apart, quoted, with blanks around the "="), no owner, an owner
\* without value
EnvFileContents(directory) ==
    {<<"# settings", "SECRET_GITHUB_OWNER = 'owner-in-" \o directory \o "'">>,
     <<"SECRET_GITHUB_TOKEN=ghp_file", "", "no separator here">>,
     <<"SECRET_GITHUB_OWNER=">>}

\* the .env files that can exist
FileSystems ==
    UNION {{f \in [{EnvFileIn(d) : d \in present} -> UNION {EnvFileContents(d) : d \in Directories}] :
                \A d \in present : f[EnvFileIn(d)] \in EnvFileContents(d)} :
           present \in SUBSET Directories}

\* os.environ: the owner not set, set to the empty string, set to a value
Environs ==
    {EnvironWith({"SECRET_GITHUB_TOKEN"}),
     ("SECRET_GITHUB_OWNER" :> "") @@ EnvironWith({"SECRET_GITHUB_TOKEN"}),
     ("SECRET_GITHUB_OWNER" :> "env-owner") @@ EnvironWith({"SECRET_GITHUB_TOKEN"})}

InitLookup ==
    /\ NothingCalled
    /\ environ \in Environs
    /\ cwd \in Directories
    /\ files \in FileSystems

\* _lookup_config_value(key) called on its own (get_owner, get_github_token)
CallLookupConfigValue ==
    /\ pc = "idle"
    /\ \E key \in ConfigKeys :
        LET result == LookupConfigValue(key) IN
        /\ op' = "_lookup_config_value"
        /\ kwargs' = {"key"}
        /\ outcomes' = <<Outcome("_lookup_config_value", NoRepository, key,
                                 result.returned, "", result.raised)>>
        /\ error' = result.raised
        /\ pc' = IF result.raised = None THEN "done" ELSE "failed"
    /\ UNCHANGED <<server, owner, number_of_workflow_runs_to_keep, url, collected,
                   repositories, ri, workflows, wi, workflow_run_ids,
                   workflow_run_ids_to_delete, di, requests, history, process>>

\* ------------------------------------------------------------------- Next

\* one sweep, of either kind
Next ==
    \/ StartEnableAll
    \/ StartDeleteOld
    \/ CallEnableWorkflow
    \/ GetRepositories
    \/ GetWorkflows
    \/ EnableWorkflow
    \/ GetWorkflowRuns
    \/ DeleteWorkflowRun

Spec == Init /\ [][Next]_vars

\* activation sweeps one after the other, against the same server
NextAgain ==
    \/ StartEnableAll
    \/ EnableAllAgain
    \/ GetRepositories
    \/ GetWorkflows
    \/ EnableWorkflow

SpecAgain == Init /\ [][NextAgain]_vars

\* one run of main
NextMain ==
    \/ MainEnableAll
    \/ MainDeleteOld
    \/ EnvFilesRemoved
    \/ GetRepositories
    \/ GetWorkflows
    \/ EnableWorkflow
    \/ GetWorkflowRuns
    \/ DeleteWorkflowRun

SpecMain == InitMain /\ [][NextMain]_vars

\* A server whose listing of the repositories, or whose first page of the
\* workflows or runs of one repository, is a 2xx answer without the expected
\* shape: an entry without the key the program reads, or an object without
\* the collection.
ShapelessServers ==
    LET listing == OkResponse(200, [i \in 1..MaxRepos |-> [name |-> AllRepoNames[i]]],
                              NoPage)
        entry == OkResponse(200, <<ShapelessEntry>>, NoPage)
        items(o) == {WorkflowsUrl(o, r, 1) : r \in RepoNames}
                        \cup {WorkflowRunsUrl(o, r, 1) : r \in RepoNames}
    IN  {RepositoriesUrl(o, 1) :> entry : o \in Owners}
            \cup UNION {{(RepositoriesUrl(o, 1) :> listing) @@ (req :> resp) :
                            req \in items(o),
                            resp \in {entry} \cup {NoCollectionResponse(n) :
                                                      n \in NextLinks(1)}} :
                        o \in Owners}

InitShapeless ==
    /\ NoSweepRunning
    /\ server \in ShapelessServers
    /\ environ = DeployedEnviron
    /\ cwd = "/repo"
    /\ files = <<>>

\* one sweep against such a server
NextShapeless ==
    \/ StartEnableAll
    \/ StartDeleteOld
    \/ GetRepositories
    \/ GetWorkflows
    \/ EnableWorkflow
    \/ GetWorkflowRuns
    \/ DeleteWorkflowRun

SpecShapeless == InitShapeless /\ [][NextShapeless]_vars

\* A server whose pages of the repository listing and of the workflow listing
\* of the first repository carry any next link, also one that points back to
\* a page already fetched or to the page itself, or are answered 404.
LinkedServers ==
    LET answers(entries) ==
            {OkResponse(200, entries, n) : n \in {NoPage} \cup (1..MaxPages)}
                \cup {ErrorResponse(404, "Not Found")}
        repos(p) == IF p = 1 THEN <<[name |-> AllRepoNames[1]]>> ELSE <<>>
        paths(p) == IF p = 1 THEN <<[path |-> ".github/workflows/ci.yml"]>> ELSE <<>>
        pages(entries(_)) ==
            {f \in [1..MaxPages -> UNION {answers(entries(p)) : p \in 1..MaxPages}] :
                \A p \in 1..MaxPages : f[p] \in answers(entries(p))}
    IN  UNION {{[req \in {RepositoriesUrl(o, p) : p \in 1..MaxPages}
                        \cup {WorkflowsUrl(o, AllRepoNames[1], p) : p \in 1..MaxPages}
                    |-> IF req.endpoint = "users/repos"
                        THEN a[req.page] ELSE b[req.page]] :
                    a \in pages(repos), b \in pages(paths)} :
               o \in Owners}

InitPages ==
    /\ NoSweepRunning
    /\ server \in LinkedServers
    /\ environ = DeployedEnviron
    /\ cwd = "/repo"
    /\ files = <<>>

\* one activation sweep against such a server
NextPages ==
    \/ StartEnableAll
    \/ GetRepositories
    \/ GetWorkflows
    \/ EnableWorkflow

\* The process is one thread that runs on, and every request returns or
\* raises after REQUEST_TIMEOUT_SECONDS at the latest: a step that can be
\* taken is taken.
SpecPages == InitPages /\ [][NextPages]_vars /\ WF_vars(NextPages)

\* Servers with a given first page of the repository listing (all
\* repositories, an error, no answer), on which nothing, or the item listings
\* of the first repository, or the item requests for it, are never answered.
StallingServers ==
    LET first == AllRepoNames[1]
        listing == OkResponse(200, [i \in 1..MaxRepos |-> [name |-> AllRepoNames[i]]],
                              NoPage)
        stalls(o) ==
            {<<>>,
             WorkflowsUrl(o, first, 1) :> Stalled @@ WorkflowRunsUrl(o, first, 1) :> Stalled,
             EnableUrl(o, first, "ci.yml") :> Stalled
                @@ [req \in {DeleteRunUrl(o, first, id) : id \in RunIds} |-> Stalled]}
    IN  UNION {{RepositoriesUrl(o, 1) :> listing @@ stalled : stalled \in stalls(o)}
                    \cup {RepositoriesUrl(o, 1) :> resp :
                            resp \in {Stalled, ErrorResponse(404, "Not Found")}} :
               o \in Owners}

InitLegacy ==
    /\ NoSweepRunning
    /\ server \in StallingServers
    /\ environ = DeployedEnviron
    /\ cwd = "/repo"
    /\ files = <<>>

\* a sweep of keep_active.py and then the same sweep of the legacy module
NextLegacy ==
    \/ StartEnableAll
    \/ StartDeleteOld
    \/ GetRepositories
    \/ GetWorkflows
    \/ EnableWorkflow
    \/ GetWorkflowRuns
    \/ DeleteWorkflowRun
    \/ StartLegacy
    \/ LegacyGetRepositories
    \/ LegacyGetWorkflows
    \/ LegacyEnableWorkflow
    \/ LegacyGetWorkflowRuns
    \/ LegacyDeleteWorkflowRun

SpecLegacy == InitLegacy /\ [][NextLegacy]_vars

\* one lookup of a configuration value
NextLookup == CallLookupConfigValue

SpecLookup == InitLookup /\ [][NextLookup]_vars

\* ------------------------------------------------- reading the request log

Last(s) == s[Len(s)]

Max(a, b) == IF a >= b THEN a ELSE b
Min(a, b) == IF a <= b THEN a ELSE b

IsEnableRequest(r) == r.request.endpoint = "actions/workflows/enable"
IsDeleteRequest(r) == r.request.method = "DELETE"
IsListingRequest(r) == r.request.method = "GET"

\* the request got no response, or a 4xx/5xx one
RequestFailed(r) == r.response.transport \/ RaisesForStatus(r.response)

SweepEnded == pc \in {"done", "failed"}

\* the requests of the log that went to one endpoint of one repository
RequestsTo(endpoint, repository) ==
    SelectSeq(requests, LAMBDA r : r.request.endpoint = endpoint
                                   /\ r.request.repository = repository)

RECURSIVE ConcatEntries(_)
ConcatEntries(pages) ==
    IF pages = <<>> THEN <<>>
    ELSE pages[1].response.entries \o ConcatEntries(Tail(pages))

\* a listing that came back whole: every page answered 2xx, the last without
\* a next link
ListingComplete(pages) ==
    /\ pages # <<>>
    /\ \A k \in 1..Len(pages) : ~RequestFailed(pages[k])
    /\ Last(pages).response.next = NoPage

\* ---------------------------------------------------------------- claims

\* C1: in enable_all_workflows a failed enable request (non-2xx response) does
\* not stop the sweep: the sweep never ends in failure on such a response, the
\* workflows and repositories after it are still processed.
C1_FailedEnableDoesNotStopSweep ==
    \A k \in 1..Len(requests) :
        (/\ op = "enable_all_workflows"
         /\ IsEnableRequest(requests[k])
         /\ ~requests[k].response.transport
         /\ RaisesForStatus(requests[k].response))
        => ~(pc = "failed" /\ k = Len(requests))

\* C2: in delete_old_workflow_runs a failed delete (no response, or a response
\* other than 204) does not stop the sweep: the sweep never ends in failure on
\* a delete request, the remaining identifiers are still requested.
C2_FailedDeleteDoesNotStopSweep ==
    \A k \in 1..Len(requests) :
        (/\ IsDeleteRequest(requests[k])
         /\ (requests[k].response.transport \/ requests[k].response.status # 204))
        => ~(pc = "failed" /\ k = Len(requests))

\* The half of C2 the code keeps: after a response other than 204 the sweep
\* goes on.
NonNoContentDeleteGoesOn ==
    \A k \in 1..Len(requests) :
        (IsDeleteRequest(requests[k]) /\ ~requests[k].response.transport)
        => ~(pc = "failed" /\ k = Len(requests))

\* d is the descending sequence of the Len(ids) - keep smallest of the
\* distinct identifiers ids
IsOldestDescending(d, ids, keep) ==
    /\ Len(d) = Max(0, Len(ids) - keep)
    /\ Range(d) \subseteq Range(ids)
    /\ \A i, j \in 1..Len(d) : i < j => d[i] > d[j]
    /\ \A x \in Range(d), y \in Range(ids) \ Range(d) : x < y

\* the identifiers the run listing of a repository returned
ListedRunIds(repository) == RunIdsOf(ConcatEntries(RequestsTo("actions/runs", repository)))

\* the identifiers of the delete requests for a repository, in request order
DeleteRequestsFor(repository) ==
    LET sent == RequestsTo("actions/runs/id", repository)
    IN  [k \in 1..Len(sent) |-> sent[k].request.item]

IdStrings(d) == [k \in 1..Len(d) |-> ToString(d[k])]

\* C3: for every repository whose run listing returned distinct identifiers,
\* and every keep >= 0, once the sweep is past the repository (or has ended)
\* the delete requests issued for it are exactly the Len - keep smallest
\* identifiers, in descending order, so that Min(keep, Len) runs are retained.
C3_DeletesExactlyOldestRunsDescending ==
    \A j \in 1..Len(repositories) :
        LET repository == repositories[j]
            ids == ListedRunIds(repository)
            sent == DeleteRequestsFor(repository) IN
        (/\ op = "delete_old_workflow_runs"
         /\ SweepEnded \/ j < ri
         /\ ListingComplete(RequestsTo("actions/runs", repository))
         /\ Injective(ids))
        => /\ \E d \in SeqsUpTo(RunIds, Len(ids)) :
                IdStrings(d) = sent
                /\ IsOldestDescending(d, ids, number_of_workflow_runs_to_keep)
           /\ Len(ids) - Len(sent) = Min(number_of_workflow_runs_to_keep, Len(ids))

\* What the code keeps of C3: the deletion set it computes for a repository is
\* the descending sequence of the oldest runs, and the delete requests issued
\* for the repository so far are the first di (or di - 1) of that sequence.
DeletionSetIsOldestRunsDescending ==
    (pc = "delete_workflow_run" /\ Injective(workflow_run_ids))
    => /\ IsOldestDescending(workflow_run_ids_to_delete, workflow_run_ids,
                             number_of_workflow_runs_to_keep)
       /\ DeleteRequestsFor(repositories[ri])
            = IdStrings(SubSeq(workflow_run_ids_to_delete, 1, di - 1))

\* C7: delete_workflow_run reports Deleted exactly when the response has
\* status 204; for any other status and for a request without response it
\* reports a failure that carries owner, repository, run identifier and cause.
C7_DeletedIffNoContentElseFailure ==
    LET sent == SelectSeq(requests, IsDeleteRequest) IN
    \A k \in 1..Len(outcomes) :
        outcomes[k].call = "delete_workflow_run" =>
            LET resp == sent[k].response
                done == outcomes[k]
                no_content == ~resp.transport /\ resp.status = 204 IN
            /\ (done.logged = Deleted(owner, done.repository, sent[k].request.item)
                    /\ done.raised = None) <=> no_content
            /\ ~no_content =>
                /\ done.raised # None
                /\ Contains(done.raised.message, owner)
                /\ Contains(done.raised.message, done.repository)
                /\ Contains(done.raised.message, done.item)

\* C4: the classification of enable_workflow depends on the filename prefix
\* alone: a call for a filename that starts with "pages-build-deployment" or
\* with "dependabot" returns a skipped result and issues no request; a call
\* for any other filename issues exactly one PUT request, to the enable URL of
\* that workflow.
C4_ClassificationByFilenamePrefix ==
    [][(Len(outcomes') = Len(outcomes) + 1
        /\ Last(outcomes').call = "enable_workflow")
       => LET call == Last(outcomes')
              skipped == \/ StartsWith(call.item, "pages-build-deployment")
                         \/ StartsWith(call.item, "dependabot") IN
          IF skipped
          THEN /\ requests' = requests
               /\ call.raised = None
               /\ Contains(call.returned, "skipped")
               /\ pc' # "failed"
          ELSE /\ Len(requests') = Len(requests) + 1
               /\ SubSeq(requests', 1, Len(requests)) = requests
               /\ Last(requests').request
                    = [method |-> "PUT", endpoint |-> "actions/workflows/enable",
                       owner |-> owner, repository |-> call.repository,
                       item |-> call.item, per_page |-> 0, page |-> 0]
               /\ ~Contains(call.returned, "skipped")]_vars

\* C4 witness: one sweep has skipped a pages-build-deployment workflow and a
\* Dependabot workflow and has sent one enable request, for ci.yml.
C4_Witness ==
    /\ op = "enable_all_workflows"
    /\ Len(outcomes) = 3
    /\ \E a, b, c \in 1..3 :
        /\ outcomes[a].item = "pages-build-deployment"
        /\ outcomes[b].item = "dependabot-updates"
        /\ outcomes[c].item = "ci.yml"
        /\ Contains(outcomes[a].returned, "skipped")
        /\ Contains(outcomes[b].returned, "skipped")
        /\ outcomes[c].returned = Enabled(outcomes[c].repository, "ci.yml")
    /\ Len(SelectSeq(requests, IsEnableRequest)) = 1

RECURSIVE SumOfPageLengths(_)
SumOfPageLengths(pages) ==
    IF pages = <<>> THEN 0
    ELSE Len(pages[1].response.entries) + SumOfPageLengths(Tail(pages))

InSweep == op \in {"enable_all_workflows", "delete_old_workflow_runs"}

\* C5: a paginated listing whose pages all came back 2xx, with a next link on
\* all but the last, returns the items of all its pages, in page order and in
\* the order of each page; its length is the sum of the page lengths.
C5_ListingIsConcatenationOfPages ==
    /\ (InSweep /\ pc \notin {"idle", "get_repositories", "failed"}) =>
        LET pages == RequestsTo("users/repos", NoRepository) IN
        /\ repositories = RepositoryNames(ConcatEntries(pages))
        /\ Len(repositories) = SumOfPageLengths(pages)
    /\ (InSweep /\ pc = "enable_workflow") =>
        LET pages == RequestsTo("actions/workflows", repositories[ri]) IN
        /\ workflows = WorkflowNames(ConcatEntries(pages))
        /\ Len(workflows) = SumOfPageLengths(pages)
    /\ (InSweep /\ pc = "delete_workflow_run") =>
        LET pages == RequestsTo("actions/runs", repositories[ri]) IN
        /\ workflow_run_ids = RunIdsOf(ConcatEntries(pages))
        /\ Len(workflow_run_ids) = SumOfPageLengths(pages)

\* C5 witness: a run listing of two pages, the first with two identifiers,
\* has been returned to the sweep.
C5_Witness ==
    /\ pc = "delete_workflow_run"
    /\ LET pages == RequestsTo("actions/runs", repositories[ri]) IN
        /\ Len(pages) = 2
        /\ Len(pages[1].response.entries) = 2
        /\ Len(pages[2].response.entries) >= 1
        /\ Len(workflow_run_ids) >= 3
        /\ workflow_run_ids[1] < workflow_run_ids[2]

\* the list the caller of a listing holds
ListOf(endpoint) ==
    IF endpoint = "users/repos" THEN repositories
    ELSE IF endpoint = "actions/workflows" THEN workflows
    ELSE workflow_run_ids

\* C6: a paginated listing is all or nothing: when a page request fails (no
\* response, or a non-2xx one), however many pages came before, the caller
\* gets the failure and none of the items collected; a list reaches the
\* caller only from a listing that came back whole.
C6_ListingIsAllOrNothing ==
    /\ \A k \in 1..Len(requests) :
        (IsListingRequest(requests[k]) /\ RequestFailed(requests[k])) =>
            /\ k = Len(requests)
            /\ pc = "failed"
            /\ error # None
            /\ collected = <<>>
            /\ ListOf(requests[k].request.endpoint) = <<>>
    /\ (InSweep /\ repositories # <<>>) =>
            ListingComplete(RequestsTo("users/repos", NoRepository))
    /\ (InSweep /\ workflows # <<>>) =>
            ListingComplete(RequestsTo("actions/workflows", repositories[ri]))
    /\ (InSweep /\ workflow_run_ids # <<>>) =>
            ListingComplete(RequestsTo("actions/runs", repositories[ri]))

\* C6 witness: the second page of a listing failed after a first page with
\* items, and the sweep has ended with the failure.
C6_Witness ==
    /\ pc = "failed"
    /\ Len(requests) >= 2
    /\ LET first == requests[Len(requests) - 1]
           second == Last(requests) IN
        /\ IsListingRequest(second) /\ RequestFailed(second)
        /\ first.request.endpoint = second.request.endpoint
        /\ first.request.repository = second.request.repository
        /\ first.response.entries # <<>>

ItemListingFailedAt(k) ==
    /\ requests[k].request.endpoint \in {"actions/workflows", "actions/runs"}
    /\ RequestFailed(requests[k])

C9_FailedItemListing ==
    \A k \in 1..Len(requests) :
        ItemListingFailedAt(k) =>
            /\ k = Len(requests)
            /\ pc = "failed"
            /\ error # None
            /\ requests[k].request.repository = repositories[ri]
            /\ \A i \in 1..Len(requests) :
                /\ requests[i].request.repository = repositories[ri]
                        => IsListingRequest(requests[i])
                /\ \A j \in (ri + 1)..Len(repositories) :
                        requests[i].request.repository # repositories[j]

\* C9: when the workflow listing or the run listing of the repository at
\* position i fails, the sweep ends with that failure: no enable or delete
\* request is sent for that repository, no request at all for a repository
\* after it, nothing is sent once the sweep has failed, and the requests sent
\* before stay as they were.
C9_ItemListingFailureEndsSweep ==
    /\ []C9_FailedItemListing
    /\ [][/\ IsPrefixOf(requests, requests')
          /\ pc = "failed" => requests' = requests]_vars

\* C9 witness: the listing of the first of two repositories has failed on its
\* second page; the second repository has not been asked about.
C9_Witness ==
    /\ pc = "failed"
    /\ ri = 1
    /\ Len(repositories) = 2
    /\ Len(requests) >= 3
    /\ ItemListingFailedAt(Len(requests))
    /\ ~ItemListingFailedAt(Len(requests) - 1)
    /\ requests[Len(requests) - 1].request.repository = repositories[1]

\* the enable requests of a request log, without their responses
EnableRequestsOf(log) ==
    LET sent == SelectSeq(log, IsEnableRequest)
    IN  [k \in 1..Len(sent) |-> sent[k].request]

IsEnabledOutcome(call) ==
    /\ call.call = "enable_workflow"
    /\ call.returned = Enabled(call.repository, call.item)

\* C10: enable_all_workflows run again against the same server sends the same
\* sequence of enable requests as the run before, and every workflow that run
\* reported Enabled is reported Enabled again.
C10_SecondActivationRepeatsFirst ==
    (history # <<>> /\ SweepEnded) =>
        LET first == Last(history) IN
        /\ EnableRequestsOf(requests) = EnableRequestsOf(first.requests)
        /\ \A k \in 1..Len(first.outcomes) :
            IsEnabledOutcome(first.outcomes[k]) =>
                \E m \in 1..Len(outcomes) : outcomes[m] = first.outcomes[k]

\* C10 witness: two activation sweeps have ended normally, each with an
\* enable request that was answered Enabled and a skipped workflow.
C10_Witness ==
    /\ Len(history) = 1
    /\ pc = "done"
    /\ history[1].pc = "done"
    /\ Len(EnableRequestsOf(requests)) >= 1
    /\ \E k \in 1..Len(outcomes) : IsEnabledOutcome(outcomes[k])
    /\ \E k \in 1..Len(outcomes) : Contains(outcomes[k].returned, "skipped")

\* the run listing of repository j came back whole and the sweep is done with
\* the repository
PrunedRepository(j) ==
    /\ op = "delete_old_workflow_runs"
    /\ SweepEnded \/ j < ri
    /\ ListingComplete(RequestsTo("actions/runs", repositories[j]))

\* C11: edge cases of the retention count of delete_old_workflow_runs: with
\* keep = 0 every listed run of every repository gets a delete request; a
\* repository whose listing has keep or fewer runs (exactly keep, none) gets no
\* delete request; a call that does not pass the count runs with 50.
C11_RetentionCountEdgeCases ==
    /\ (op = "delete_old_workflow_runs"
            /\ "number_of_workflow_runs_to_keep" \notin kwargs)
        => number_of_workflow_runs_to_keep = 50
    /\ \A j \in 1..Len(repositories) :
        LET ids == ListedRunIds(repositories[j])
            sent == DeleteRequestsFor(repositories[j]) IN
        PrunedRepository(j) =>
            /\ number_of_workflow_runs_to_keep = 0
                    => \A x \in Range(ids) : ToString(x) \in Range(sent)
            /\ Len(ids) <= number_of_workflow_runs_to_keep => sent = <<>>

\* What the code keeps of C11: the default is 50, a listing of keep or fewer
\* runs leads to no delete request, and with keep = 0 the deletion set the
\* sweep computes holds every listed run.
RetentionCountOfDeletionSet ==
    /\ (op = "delete_old_workflow_runs"
            /\ "number_of_workflow_runs_to_keep" \notin kwargs)
        => number_of_workflow_runs_to_keep = 50
    /\ \A j \in 1..Len(repositories) :
        (PrunedRepository(j)
            /\ Len(ListedRunIds(repositories[j])) <= number_of_workflow_runs_to_keep)
        => DeleteRequestsFor(repositories[j]) = <<>>
    /\ (pc = "delete_workflow_run" /\ number_of_workflow_runs_to_keep = 0)
        => /\ Len(workflow_run_ids_to_delete) = Len(workflow_run_ids)
           /\ Range(workflow_run_ids_to_delete) = Range(workflow_run_ids)

\* an enable or delete request that failed: no response, a 4xx/5xx response,
\* or a delete response other than 204
ItemRequestFailed(r) ==
    \/ IsEnableRequest(r) /\ RequestFailed(r)
    \/ IsDeleteRequest(r) /\ (r.response.transport \/ r.response.status # 204)

\* C12: a run of main fails when the repository listing fails, and does not
\* fail on a failed enable or a failed delete: main never ends with the
\* exception of such a request, so a failed enable does not keep
\* delete_old_workflow_runs from being run.
C12_OnlyDiscoveryFailureFailsMain ==
    main # "idle" =>
        \A k \in 1..Len(requests) :
            /\ (requests[k].request.endpoint = "users/repos"
                    /\ RequestFailed(requests[k])) => MainFailed
            /\ ItemRequestFailed(requests[k])
                    => ~(MainFailed /\ k = Len(requests))

\* What the code keeps of C12: main fails when the repository listing of
\* either sweep fails.
MainFailsWhenRepositoryListingFails ==
    main # "idle" =>
        \A k \in 1..Len(requests) :
            (requests[k].request.endpoint = "users/repos"
                /\ RequestFailed(requests[k])) => MainFailed

\* the repositories a request log has item requests for
RepositoriesIn(log) ==
    {log[k].request.repository : k \in {i \in 1..Len(log) :
                                        log[i].request.endpoint # "users/repos"}}

\* C13: nothing is cached between the two sweeps of main: each sweep begins
\* with its own repository listing, the list it works on is the one that
\* listing returned, it sends item requests to repositories of that list only,
\* and when it ends normally it has processed every repository of the list;
\* this holds too when the server lists other repositories for the second
\* sweep than for the first.
C13_EachSweepUsesItsOwnRepositoryListing ==
    (main # "idle" /\ op # "none") =>
        LET pages == RequestsTo("users/repos", NoRepository) IN
        /\ requests # <<>> => requests[1].request = RepositoriesUrl(owner, 1)
        /\ pc \notin {"get_repositories", "failed"}
                => repositories = RepositoryNames(ConcatEntries(pages))
        /\ RepositoriesIn(requests) # {} => ListingComplete(pages)
        /\ RepositoriesIn(requests)
                \subseteq Range(RepositoryNames(ConcatEntries(pages)))
        /\ pc = "done" => RepositoriesIn(requests) = Range(repositories)

\* C13 witness: main has returned; the first sweep listed and processed one
\* repository, the second sweep listed and processed another one.
C13_Witness ==
    /\ MainReturned
    /\ Len(history) = 1
    /\ RepositoriesIn(history[1].requests) = {"lib_x"}
    /\ repositories = <<"lib_y">>
    /\ RepositoriesIn(requests) = {"lib_y"}

\* the listings the sweep has sent requests for: <<endpoint, repository>>
ListingsRequested ==
    {<<requests[k].request.endpoint, requests[k].request.repository>> :
        k \in {i \in 1..Len(requests) : IsListingRequest(requests[i])}}

\* the sweep is in the while loop of the listing
Fetching(endpoint, repository) ==
    \/ endpoint = "users/repos" /\ pc = "get_repositories"
    \/ /\ endpoint = "actions/workflows" /\ pc = "get_workflows"
       /\ repositories[ri] = repository
    \/ /\ endpoint = "actions/runs" /\ pc = "get_workflow_runs"
       /\ repositories[ri] = repository

\* C14: a paginated listing sends its first GET request to the initial URL
\* (page size 100), sends a further request only after a 2xx page with a next
\* link and then to that link, is still in its loop while the last page has a
\* next link, and has left the loop once a page without next link has come:
\* a chain of N good pages costs exactly N requests.
C14_OneRequestPerPageAlongNextLinks ==
    InSweep =>
        \A listing \in ListingsRequested :
            LET pages == RequestsTo(listing[1], listing[2])
                last == Last(pages) IN
            /\ pages[1].request.page = 1
            /\ \A k \in 1..Len(pages) :
                /\ pages[k].request.method = "GET"
                /\ pages[k].request.per_page = 100
                /\ k < Len(pages) =>
                    /\ ~RequestFailed(pages[k])
                    /\ pages[k].response.next # NoPage
                    /\ pages[k + 1].request.page = pages[k].response.next
            /\ (~RequestFailed(last) /\ last.response.next # NoPage)
                    => Fetching(listing[1], listing[2]) /\ url = last.response.next
            /\ (~RequestFailed(last) /\ last.response.next = NoPage)
                    => ~Fetching(listing[1], listing[2])
            /\ RequestFailed(last) => pc = "failed"

\* C14 witness: a sweep has fetched a listing of two pages for a repository
\* and has gone on with the items.
C14_Witness ==
    /\ InSweep
    /\ pc \in {"enable_workflow", "delete_workflow_run"}
    /\ \E listing \in ListingsRequested :
        /\ listing[2] = repositories[ri]
        /\ Len(RequestsTo(listing[1], listing[2])) = 2
        /\ RequestsTo(listing[1], listing[2])[2].request.page = 2

\* the error is the discovery error of the failed listing request r: a
\* RuntimeError "ERROR reading ..." that names the owner and, for a workflow or
\* run listing, the repository
IsDiscoveryErrorOf(r) ==
    /\ error.type = "RuntimeError"
    /\ StartsWith(error.message, "ERROR reading ")
    /\ Contains(error.message, r.request.owner)
    /\ Contains(error.message, r.request.repository)

\* C15: every failed listing request (repositories, workflows, runs; a 4xx/5xx
\* response with or without a JSON body, or no response at all) reaches the
\* caller as the discovery error that names the owner, the repository and the
\* cause, never as another error.
C15_ListingFailureIsOneDiscoveryError ==
    \A k \in 1..Len(requests) :
        (IsListingRequest(requests[k]) /\ RequestFailed(requests[k])) =>
            /\ IsDiscoveryErrorOf(requests[k])
            /\ requests[k].response.message # NoMessage
                    => Contains(error.message, requests[k].response.message)

\* What the code keeps of C15: a 4xx/5xx response with a JSON body is wrapped
\* in the discovery error, with the body's message or "Error".
JsonErrorResponseIsWrapped ==
    \A k \in 1..Len(requests) :
        (/\ IsListingRequest(requests[k])
         /\ ~requests[k].response.transport
         /\ RaisesForStatus(requests[k].response)
         /\ requests[k].response.json) =>
            /\ IsDiscoveryErrorOf(requests[k])
            /\ Contains(error.message, ErrorMessage(requests[k].response))

\* the file at path defines key: it exists and has a value for it
Defines(path, key) ==
    path \in DOMAIN files /\ TruthyValue(ReadEnvFile(path), key) # ""

\* the lookup whose result is call went by the environment first and then by
\* the files at paths, in their order
LookupWentBy(call, paths) ==
    LET key == call.item
        defining == {i \in 1..Len(paths) : Defines(paths[i], key)} IN
    IF TruthyValue(environ, key) # ""
    THEN call.raised = None /\ call.returned = environ[key]
    ELSE IF defining # {}
    THEN LET first == CHOOSE i \in defining : \A j \in defining : i <= j IN
         /\ call.raised = None
         /\ call.returned = ReadEnvFile(paths[first])[key]
    ELSE /\ call.raised # None
         /\ StartsWith(call.raised.message, "Missing required configuration")
         /\ Contains(call.raised.message, key)

\* C16: the lookup of a key returns the value of the process environment when
\* there is one; otherwise the value of the first file that defines the key,
\* of the .env files in the working directory, the package directory and the
\* repository root, in this order; and fails with "Missing required
\* configuration" and the key when none of them has it. (An empty value counts
\* as no value.)
C16_LookupOrderEnvironmentThenFiles ==
    (op = "_lookup_config_value" /\ outcomes # <<>>) =>
        LookupWentBy(outcomes[1],
                     <<EnvFileIn(cwd), EnvFileIn(ScriptDir), EnvFileIn("/repo")>>)

\* What the code keeps of C16: the same order, with the parent of the package
\* directory in place of the repository root.
LookupOrderOfCode ==
    (op = "_lookup_config_value" /\ outcomes # <<>>) =>
        LookupWentBy(outcomes[1],
                     <<EnvFileIn(cwd), EnvFileIn(ScriptDir), EnvFileIn(RepoRootOfCode)>>)

\* main has ended with the error of a failed lookup
LookupFailed ==
    /\ MainFailed
    /\ StartsWith(error.message, "Missing required configuration")

\* C17: in a run of main a failed credential lookup comes before any HTTP
\* request: when main ends with the error of a lookup, no request has been
\* sent in the run.
C17_NoRequestBeforeFailedLookup ==
    LookupFailed => (requests = <<>> /\ history = <<>>)

\* a lookup of main would raise in the environment as it is
CredentialsMissing ==
    \E key \in ConfigKeys : LookupConfigValue(key).raised # None

\* C17, as the code has it: each line of main resolves owner and token before
\* the sweep of that line sends a request. A run that starts without a value
\* ends with the lookup's error and without any request; a lookup of line 538
\* can fail only when the .env files went away after line 537 resolved its
\* values, and then no request of delete_old_workflow_runs has been sent.
C17_LookupsPrecedeRequestsOfTheirSweep ==
    /\ (main = "line 537" /\ pc # "done" /\ CredentialsMissing)
            => (LookupFailed /\ requests = <<>> /\ history = <<>>)
    /\ (LookupFailed /\ main = "line 537") => (requests = <<>> /\ history = <<>>)
    /\ (LookupFailed /\ main = "line 538") =>
            /\ files = <<>>
            /\ op = "enable_all_workflows"
            /\ history = <<>>
            /\ \A k \in 1..Len(requests) :
                    /\ requests[k].request.endpoint # "actions/runs"
                    /\ ~IsDeleteRequest(requests[k])

\* C17 witness: the lookup of line 538 has failed after the requests of
\* enable_all_workflows.
C17_Witness ==
    /\ LookupFailed
    /\ main = "line 538"
    /\ Len(requests) >= 3
    /\ \E k \in 1..Len(requests) : IsEnableRequest(requests[k])

\* the requests of the sweep that have been sent and have no response yet
Outstanding == {k \in 1..Len(requests) : requests[k].response = Pending}

ListedRepositories ==
    LET data == ConcatEntries(RequestsTo("users/repos", NoRepository))
    IN  [i \in 1..Len(data) |-> data[i].name]

\* the workflow filenames the listing pages of one repository returned
ListedWorkflows(repository) ==
    LET data == ConcatEntries(RequestsTo("actions/workflows", repository))
    IN  [i \in 1..Len(data) |-> Basename(data[i].path)]

\* the (repository, workflow filename) pairs in repository-listing order and,
\* within a repository, in workflow-listing order
RECURSIVE ListedPairs(_)
ListedPairs(repos) ==
    IF repos = <<>> THEN <<>>
    ELSE LET names == ListedWorkflows(repos[1])
         IN  [i \in 1..Len(names) |-> [repository |-> repos[1], item |-> names[i]]]
                \o ListedPairs(Tail(repos))

IsSkippedPair(pair) ==
    \/ StartsWith(pair.item, "pages-build-deployment")
    \/ StartsWith(pair.item, "dependabot")

\* position of a repository in the listing
ListedAt(repository) ==
    CHOOSE i \in 1..Len(ListedRepositories) : ListedRepositories[i] = repository

NoRequestFailed == \A k \in 1..Len(requests) : ~RequestFailed(requests[k])

\* C19: in an activation sweep in which no request fails, the enable requests
\* are, in order, the listed (repository, workflow filename) pairs without
\* the skipped filenames, one request each (a prefix of them while the sweep
\* runs, all of them when it has ended); every pair has its outcome, Enabled
\* or skipped, in the same order; the requests of a repository, its workflow
\* listing first, come after every request of the repositories before it;
\* and the sweep does not end with an error.
C19_EnableRequestsFollowListingOrder ==
    (op = "enable_all_workflows" /\ NoRequestFailed) =>
        LET pairs == ListedPairs(ListedRepositories)
            remaining == SelectSeq(pairs, LAMBDA pair : ~IsSkippedPair(pair))
            wanted == [k \in 1..Len(remaining) |->
                          EnableUrl(owner, remaining[k].repository, remaining[k].item)]
        IN  /\ pc # "failed"
            /\ error = None
            /\ IsPrefixOf(EnableRequestsOf(requests), wanted)
            /\ Len(outcomes) <= Len(pairs)
            /\ \A k \in 1..Len(outcomes) :
                    /\ outcomes[k].repository = pairs[k].repository
                    /\ outcomes[k].item = pairs[k].item
                    /\ outcomes[k].raised = None
                    /\ IF IsSkippedPair(pairs[k])
                       THEN Contains(outcomes[k].returned, "skipped")
                       ELSE IsEnabledOutcome(outcomes[k])
            /\ \A a, b \in 1..Len(requests) :
                    (a < b /\ requests[a].request.repository # NoRepository) =>
                        /\ requests[b].request.repository # NoRepository
                        /\ ListedAt(requests[a].request.repository)
                                <= ListedAt(requests[b].request.repository)
                        /\ (requests[a].request.repository = requests[b].request.repository
                                /\ IsEnableRequest(requests[a]))
                            => IsEnableRequest(requests[b])
            /\ pc = "done" =>
                    /\ EnableRequestsOf(requests) = wanted
                    /\ Len(outcomes) = Len(pairs)

\* C19 witness: a sweep without a failed request has ended; the first of two
\* repositories lists ci.yml and the Dependabot workflow, which gave one
\* enable request and the outcomes Enabled, skipped; the second repository
\* was listed after that request and has an enable request of its own.
C19_Witness ==
    /\ op = "enable_all_workflows"
    /\ pc = "done"
    /\ NoRequestFailed
    /\ Len(ListedRepositories) = 2
    /\ ListedWorkflows(ListedRepositories[1]) = <<"ci.yml", "dependabot-updates">>
    /\ Len(outcomes) >= 3
    /\ IsEnabledOutcome(outcomes[1])
    /\ outcomes[2].returned
            = DependabotSkipped(ListedRepositories[1], "dependabot-updates")
    /\ Len(EnableRequestsOf(requests)) = 2
    /\ EnableRequestsOf(requests)[1]
            = EnableUrl(owner, ListedRepositories[1], "ci.yml")
    /\ EnableRequestsOf(requests)[2].repository = ListedRepositories[2]

Occurrences(s, x) == Cardinality({k \in 1..Len(s) : s[k] = x})

\* how often the sweep has sent the request of log entry r
TimesSent(r) == Occurrences([k \in 1..Len(requests) |-> requests[k].request], r.request)

CarriedByEnableFailure(resp) ==
    IF resp.json
    THEN IF resp.message # NoMessage THEN resp.message ELSE "Error"
    ELSE IF resp.text # "" THEN resp.text
    ELSE IF resp.reason # "" THEN resp.reason
    ELSE "Error"

KeyOf(endpoint) ==
    IF endpoint = "users/repos" THEN "name"
    ELSE IF endpoint = "actions/workflows" THEN "path"
    ELSE "id"

\* a 2xx listing page with an entry that lacks the key the program reads
HasShapelessEntry(r) ==
    /\ IsListingRequest(r)
    /\ ~RequestFailed(r)
    /\ \E i \in 1..Len(r.response.entries) :
            KeyOf(r.request.endpoint) \notin DOMAIN r.response.entries[i]

\* a 2xx page of workflows or runs whose object has no collection
HasNoCollection(r) ==
    /\ IsListingRequest(r)
    /\ r.request.endpoint # "users/repos"
    /\ \E n \in {NoPage} \cup (1..MaxPages) : r.response = NoCollectionResponse(n)

\* C22: a 2xx listing page without the expected shape ends the listing with a
\* response-shape error: the page is the last request of the sweep, and the
\* sweep has failed with an error of the program's own classes, not with a
\* raw KeyError and not by going on as if the page were empty.
C22_ShapelessPageIsParseError ==
    \A k \in 1..Len(requests) :
        (HasShapelessEntry(requests[k]) \/ HasNoCollection(requests[k])) =>
            /\ k = Len(requests)
            /\ pc = "failed"
            /\ \/ error.type = "ResponseShapeError"
               \/ error.type = "RuntimeError" /\ StartsWith(error.message, "ERROR reading")

\* What the code does with such a page: an entry without the key ends the
\* sweep with the KeyError of the subscript, and an object without the
\* collection counts as a page without entries.
ShapelessPageOfCode ==
    \A k \in 1..Len(requests) :
        /\ HasShapelessEntry(requests[k]) =>
                /\ k = Len(requests)
                /\ pc = "failed"
                /\ error = KeyError(KeyOf(requests[k].request.endpoint))
        /\ HasNoCollection(requests[k]) =>
                /\ ~(k = Len(requests) /\ pc = "failed")
                /\ requests[k].response.next # NoPage =>
                        (k < Len(requests) \/ url = requests[k].response.next)

\* a sweep has ended normally after a page without collection
NoCollectionPassedOver ==
    /\ pc = "done"
    /\ \E k \in 1..Len(requests) : HasNoCollection(requests[k])

\* the repositories whose run listing the pruning sweep has received whole
RunListingsReceived ==
    {repository \in Range(repositories) :
        /\ op = "delete_old_workflow_runs"
        /\ ListingComplete(RequestsTo("actions/runs", repository))
        /\ ListedRunIds(repository) # <<>>}

\* the highest identifier of the listing is not deleted, and at least
\* Min(keep, number of distinct identifiers) runs have no delete request
RetainsNewest(repository) ==
    LET ids == ListedRunIds(repository)
        highest == CHOOSE m \in Range(ids) : \A x \in Range(ids) : m >= x
        deleted == Range(DeleteRequestsFor(repository))
        retained == {x \in Range(ids) : ToString(x) \notin deleted}
    IN  /\ ToString(highest) \notin deleted
        /\ Cardinality(retained)
                >= Min(number_of_workflow_runs_to_keep, Cardinality(Range(ids)))

\* C23: for every run listing, also one that repeats an identifier on two
\* pages, and every keep >= 1, delete_old_workflow_runs sends no delete
\* request for the highest identifier of the listing and leaves at least
\* Min(keep, number of distinct identifiers) distinct runs undeleted.
C23_NewestRunsAreRetained ==
    number_of_workflow_runs_to_keep >= 1 =>
        \A repository \in RunListingsReceived : RetainsNewest(repository)

\* What the code keeps of C23: the same for the listings that name no
\* identifier twice.
NewestRunsOfDistinctListingRetained ==
    number_of_workflow_runs_to_keep >= 1 =>
        \A repository \in RunListingsReceived :
            Injective(ListedRunIds(repository)) => RetainsNewest(repository)

\* the requests of one sweep go to the sweep's endpoints only, and every
\* item request names a repository and an item that an earlier page of the
\* same log listed for that repository
TouchesOnlyItsOwn(sweep, o, log) ==
    \A k \in 1..Len(log) :
        LET req == log[k].request
            listedBefore(endpoint, repository, item) ==
                \E j \in 1..(k - 1) :
                    /\ log[j].request.endpoint = endpoint
                    /\ log[j].request.repository = repository
                    /\ ~RequestFailed(log[j])
                    /\ \E i \in 1..Len(log[j].response.entries) :
                        LET entry == log[j].response.entries[i] IN
                        IF endpoint = "users/repos" THEN entry.name = item
                        ELSE IF endpoint = "actions/workflows"
                        THEN Basename(entry.path) = item
                        ELSE ToString(entry.id) = item
        IN  /\ req.owner = o
            /\ sweep = "enable_all_workflows" =>
                    /\ req \in {RepositoriesUrl(o, req.page),
                                WorkflowsUrl(o, req.repository, req.page),
                                EnableUrl(o, req.repository, req.item)}
                    /\ req.method # "DELETE"
            /\ sweep = "delete_old_workflow_runs" =>
                    /\ req.endpoint \in {"users/repos", "actions/runs", "actions/runs/id"}
                    /\ req.method \in {"GET", "DELETE"}
                    /\ req.method = "DELETE" <=> req.endpoint = "actions/runs/id"
                    /\ ~IsEnableRequest(log[k])
            /\ req.endpoint # "users/repos" =>
                    listedBefore("users/repos", NoRepository, req.repository)
            /\ IsEnableRequest(log[k]) =>
                    listedBefore("actions/workflows", req.repository, req.item)
            /\ IsDeleteRequest(log[k]) =>
                    listedBefore("actions/runs", req.repository, req.item)

\* C24: each sweep of main sends requests to its own endpoints only
\* (enable_all_workflows: repositories, workflows, enable, never a DELETE;
\* delete_old_workflow_runs: repositories, runs, delete, never an enable),
\* and every enable or delete request names a repository and a workflow
\* filename or run identifier that this sweep's own listings returned for
\* that repository.
C24_SweepTouchesOnlyItsOwn ==
    /\ InSweep => TouchesOnlyItsOwn(op, owner, requests)
    /\ \A h \in 1..Len(history) :
            TouchesOnlyItsOwn(history[h].op, history[h].owner, history[h].requests)

\* C24 witness: in one run of main the first sweep has sent an enable request
\* and the second a delete request.
C24_Witness ==
    /\ main = "line 538"
    /\ op = "delete_old_workflow_runs"
    /\ history # <<>>
    /\ history[1].op = "enable_all_workflows"
    /\ \E k \in 1..Len(history[1].requests) : IsEnableRequest(history[1].requests[k])
    /\ \E k \in 1..Len(requests) : IsDeleteRequest(requests[k])

\* C25: a paginated fetch ends exactly when a page without next link has come
\* or a page request has failed. While the last page of a listing carries a
\* next link the fetch is in its loop with that link as the next URL, also
\* when the link names a page it has fetched before, and a fetch in its loop
\* sends a further request, up to any number of requests: against a server
\* whose pages all carry a next link the sweep never completes.
C25_FetchEndsOnlyWithoutNextLink ==
    /\ [](InSweep =>
            \A listing \in ListingsRequested :
                LET last == Last(RequestsTo(listing[1], listing[2])) IN
                /\ (RequestFailed(last) \/ last.response.next = NoPage)
                        <=> ~Fetching(listing[1], listing[2])
                /\ Fetching(listing[1], listing[2]) =>
                        /\ url = last.response.next
                        /\ ~SweepEnded)
    /\ \A n \in 0..(MaxRequests - 1) :
            [](((pc \in {"get_repositories", "get_workflows"}) /\ RequestsIssued = n)
                    => <>(RequestsIssued = n + 1))

\* C25 witness: every page of the repository listing carries a next link, one
\* of them back to a page fetched before; the fetch has sent as many requests
\* as the model lets it and is still in its loop.
C25_Witness ==
    /\ pc = "get_repositories"
    /\ Len(requests) = MaxRequests
    /\ url # NoPage
    /\ \E a, b \in 1..Len(requests) : a < b /\ requests[a].request = requests[b].request

\* the requests of a run of main, in order
RunLog == (IF history = <<>> THEN <<>> ELSE history[1].requests) \o requests

IsPruneRequest(r) ==
    IsDeleteRequest(r) \/ r.request.endpoint = "actions/runs"

\* C26: in main delete_old_workflow_runs sends its first request only after
\* enable_all_workflows has returned normally: while main is at line 537 no
\* request of the pruning sweep is sent (nor when the lookups of line 538
\* fail), the pruning sweep runs only with the activation sweep ended as done,
\* every delete request of the run comes after every enable request, and a
\* run whose activation sweep has failed takes no further step.
C26_PruneOnlyAfterActivationReturned ==
    /\ [](/\ op = "enable_all_workflows" =>
                /\ history = <<>>
                /\ \A k \in 1..Len(requests) : ~IsPruneRequest(requests[k])
          /\ (main = "line 538" /\ op = "enable_all_workflows") => LookupFailed
          /\ op = "delete_old_workflow_runs" =>
                /\ main = "line 538"
                /\ Len(history) = 1
                /\ history[1].op = "enable_all_workflows"
                /\ history[1].pc = "done"
                /\ \A k \in 1..Len(history[1].requests) :
                        ~IsPruneRequest(history[1].requests[k])
                /\ \A k \in 1..Len(requests) : ~IsEnableRequest(requests[k])
          /\ \A a, b \in 1..Len(RunLog) :
                (IsDeleteRequest(RunLog[a]) /\ IsEnableRequest(RunLog[b])) => b < a)
    /\ [][(main = "line 537" /\ pc = "failed") => UNCHANGED vars]_vars
    /\ [][history # <<>> => history' = history]_vars

\* C26 witness: the activation sweep of main has sent an enable request and
\* returned, and the pruning sweep has just sent its first delete request.
C26_Witness ==
    /\ main = "line 538"
    /\ pc = "delete_workflow_run"
    /\ Len(SelectSeq(requests, IsDeleteRequest)) = 1
    /\ IsDeleteRequest(Last(requests))
    /\ IsEnableRequest(Last(history[1].requests))

\* method and URL of the requests of a log, in order
UrlsOf(log) == [k \in 1..Len(log) |-> log[k].request]

\* a sweep of the legacy module is the current one, after the same sweep of
\* keep_active.py
InLegacySweep ==
    op \in {"legacy enable_all_workflows", "legacy delete_old_workflow_runs"}

\* a workflow listing of the log names a filename that starts with "dependabot"
ListsDependabot(log) ==
    \E k \in 1..Len(log) :
        /\ log[k].request.endpoint = "actions/workflows"
        /\ \E i \in 1..Len(log[k].response.entries) :
                /\ "path" \in DOMAIN log[k].response.entries[i]
                /\ StartsWith(Basename(log[k].response.entries[i].path), "dependabot")

\* the legacy sweep has sent the requests of the sweep of keep_active.py so
\* far, and has ended as that one did once it has sent them all
SameRequestsSameEnd(first) ==
    /\ IsPrefixOf(UrlsOf(requests), UrlsOf(first.requests))
    /\ pc # "blocked"
    /\ pc \in {"done", "failed"} =>
            /\ UrlsOf(requests) = UrlsOf(first.requests)
            /\ pc = first.pc

\* C27: against the same server, with no workflow filename that starts with
\* "dependabot", the sweeps of the legacy module send the same sequence of
\* requests (method and URL) as those of keep_active.py, and end normally
\* when those end normally and with a failure when those end with a failure.
C27_LegacySendsSameRequests ==
    (InLegacySweep /\ ~ListsDependabot(history[1].requests))
        => SameRequestsSameEnd(history[1])

\* What the code keeps of C27: the same when every request gets its response
\* or fails at once.
LegacySendsSameRequestsUnlessStalled ==
    (/\ InLegacySweep
     /\ ~ListsDependabot(history[1].requests)
     /\ \A k \in 1..Len(history[1].requests) :
            history[1].requests[k].response # Stalled)
        => SameRequestsSameEnd(history[1])

\* the legacy sweep waits for an answer that does not come, after the sweep
\* of keep_active.py has ended with the timeout of the same request
LegacyWaitsForEver ==
    /\ InLegacySweep
    /\ pc = "blocked"
    /\ history[1].pc = "failed"
    /\ UrlsOf(requests) = UrlsOf(history[1].requests)

====
